---------------------------- MODULE Spec2Model ----------------------------
(***************************************************************************)
(* Model of the analytic engine of fraud_forensics.py: the rule engine     *)
(* (rules_engine), the score aggregator (ensemble_scores), the collusion   *)
(* detector (graph_collusion_detector), the leading-digit analysis         *)
(* (benfords_law_analysis), the detector runner (run_detectors) and the    *)
(* feature preparation (prepare_features), each with a specification of    *)
(* its own over the same variables, and a process that calls a stage       *)
(* repeatedly on one table.                                                *)
(*                                                                         *)
(* A table (pandas DataFrame) is a record                                  *)
(*     [columns |-> set of column names, rows |-> sequence of rows]        *)
(* and a row is a function from column names to cells.  A cell is an       *)
(* optional value: <<>> is a null cell (NaN / None), <<v>> holds v.        *)
(* Amounts and thresholds are fixed-point numbers counted in hundredths    *)
(* (500.00 is 50000, 499.99 is 49999).                                     *)
(***************************************************************************)
EXTENDS Integers, Sequences, FiniteSets, TLC

VARIABLES df, args, ret, raised, pc

vars == <<df, args, ret, raised, pc>>

-----------------------------------------------------------------------------
(* Cells and tables *)

Null == <<>>

None == <<>>

Some(v) == <<v>>

notna(c) == c # Null

Val(c) == c[1]

\* row.get(col): the row's cell, None when the table has no such column
RowGet(table, row, col) == IF col \in table.columns THEN row[col] ELSE None

\* the positions of a table's rows, in iteration order
RowIdx(table) == 1..Len(table.rows)

\* SelectSeq by position: the subsequence of 1..n whose positions satisfy mask
RECURSIVE Masked(_, _)
Masked(n, mask) ==
    IF n = 0 THEN <<>>
    ELSE IF mask[n] THEN Append(Masked(n - 1, mask), n)
         ELSE Masked(n - 1, mask)

-----------------------------------------------------------------------------
(* rules_engine *)

\* amount % 1 == 0 on an amount counted in hundredths
IsIntegral(a) == a % 100 = 0

\* defaults of rules_engine's thresholds: 5000.0 and 500.0
DefaultHighAmountThresh == 500000

DefaultRoundThreshold == 50000

\* the labels the code writes
TypeDuplicate == "Duplicate Transaction"

TypeRound == "Round Dollar Amount"

TypeHigh == "High Value Transaction"

SeverityHigh == "High"

SeverityMedium == "Medium"

\* df.duplicated(subset=[vendor_col, amount_col], keep=False): row i is marked
\* when another row holds the same two cells; pandas groups null cells
\* together, so a null cell matches a null cell.
Duplicated(table, vendor_col, amount_col) ==
    [i \in RowIdx(table) |->
        \E j \in RowIdx(table) :
            /\ j # i
            /\ table.rows[j][vendor_col] = table.rows[i][vendor_col]
            /\ table.rows[j][amount_col] = table.rows[i][amount_col]]

\* df[amount_col].notna()
NotnaMask(table, amount_col) ==
    [i \in RowIdx(table) |-> notna(table.rows[i][amount_col])]

\* mutant of RoundMask: the test for a fractional part is left out
RoundMask_NoIntegralTest(table, amount_col, round_threshold) ==
    [i \in RowIdx(table) |->
        /\ NotnaMask(table, amount_col)[i]
        /\ Val(table.rows[i][amount_col]) >= round_threshold]

\* (valid_amounts[amount_col] % 1 == 0) & (valid_amounts[amount_col] >= round_threshold)
RoundMask(table, amount_col, round_threshold) ==
    [i \in RowIdx(table) |->
        /\ NotnaMask(table, amount_col)[i]
        /\ IsIntegral(Val(table.rows[i][amount_col]))
        /\ Val(table.rows[i][amount_col]) >= round_threshold]

\* mutant of HighMask: the boundary is exclusive
HighMask_Exclusive(table, amount_col, high_amount_thresh) ==
    [i \in RowIdx(table) |->
        /\ NotnaMask(table, amount_col)[i]
        /\ Val(table.rows[i][amount_col]) > high_amount_thresh]

\* valid_amounts[amount_col] >= high_amount_thresh
HighMask(table, amount_col, high_amount_thresh) ==
    [i \in RowIdx(table) |->
        /\ NotnaMask(table, amount_col)[i]
        /\ Val(table.rows[i][amount_col]) >= high_amount_thresh]

DuplicateAlert(table, row, vendor_col, amount_col) ==
    [tx_id    |-> RowGet(table, row, "tx_id"),
     type     |-> TypeDuplicate,
     severity |-> SeverityHigh,
     note     |-> <<"Potential Duplicate", RowGet(table, row, vendor_col),
                    RowGet(table, row, amount_col)>>]

RoundAlert(table, row, amount_col) ==
    [tx_id    |-> RowGet(table, row, "tx_id"),
     type     |-> TypeRound,
     severity |-> SeverityMedium,
     note     |-> <<"Unusual Round Amount", RowGet(table, row, amount_col)>>]

\* mutant of HighAlert: the alert is labelled as a travel alert
HighAlert_AsTravel(table, row, amount_col) ==
    [tx_id    |-> RowGet(table, row, "tx_id"),
     type     |-> "impossible_travel",
     severity |-> SeverityHigh,
     note     |-> <<"High Value Alert", RowGet(table, row, amount_col)>>]

HighAlert(table, row, amount_col) ==
    [tx_id    |-> RowGet(table, row, "tx_id"),
     type     |-> TypeHigh,
     severity |-> SeverityHigh,
     note     |-> <<"High Value Alert", RowGet(table, row, amount_col)>>]

\* df[mask]: the selected rows, in row order
Selected(table, mask) ==
    LET sel == Masked(Len(table.rows), mask)
    IN  [k \in 1..Len(sel) |-> table.rows[sel[k]]]

\* df[col]: KeyError when the table has no such column
KeyError(table, col) == col \notin table.columns

\* mutant of DuplicateGuard: the amount column is not looked for
DuplicateGuard_NoAmountTest(table, amount_col, vendor_col) ==
    /\ vendor_col # None
    /\ Val(vendor_col) \in table.columns

\* the guard of section 1: vendor_col and vendor_col in df.columns and amount_col in df.columns
DuplicateGuard(table, amount_col, vendor_col) ==
    /\ vendor_col # None
    /\ Val(vendor_col) \in table.columns
    /\ amount_col \in table.columns

\* the guard of section 2: amount_col in df.columns
AmountGuard(table, amount_col) == amount_col \in table.columns

\* section 1 of rules_engine: duplicates
DuplicateSection(table, amount_col, vendor_col) ==
    IF DuplicateGuard(table, amount_col, vendor_col)
    THEN IF KeyError(table, Val(vendor_col)) \/ KeyError(table, amount_col)
         THEN [raised |-> TRUE, alerts |-> <<>>]
         ELSE [raised |-> FALSE,
               alerts |-> LET dup == Selected(table, Duplicated(table, Val(vendor_col), amount_col))
                          IN  [k \in 1..Len(dup) |->
                                  DuplicateAlert(table, dup[k], Val(vendor_col), amount_col)]]
    ELSE [raised |-> FALSE, alerts |-> <<>>]

\* section 2 of rules_engine: round numbers, then high values
AmountSection(table, amount_col, high_amount_thresh, round_threshold) ==
    IF AmountGuard(table, amount_col)
    THEN IF KeyError(table, amount_col)
         THEN [raised |-> TRUE, alerts |-> <<>>]
         ELSE [raised |-> FALSE,
               alerts |-> LET round == Selected(table, RoundMask(table, amount_col, round_threshold))
                              high  == Selected(table, HighMask(table, amount_col, high_amount_thresh))
                          IN  [k \in 1..Len(round) |-> RoundAlert(table, round[k], amount_col)]
                              \o
                              [k \in 1..Len(high) |-> HighAlert(table, high[k], amount_col)]]
    ELSE [raised |-> FALSE, alerts |-> <<>>]

\* rules_engine(df, amount_col, vendor_col, high_amount_thresh, round_threshold):
\* the alert list, or an exception
rules_engine(table, amount_col, vendor_col, high_amount_thresh, round_threshold) ==
    LET s1 == DuplicateSection(table, amount_col, vendor_col)
        s2 == AmountSection(table, amount_col, high_amount_thresh, round_threshold)
    IN  IF s1.raised \/ s2.raised
        THEN [raised |-> TRUE, alerts |-> <<>>]
        ELSE [raised |-> FALSE, alerts |-> s1.alerts \o s2.alerts]

-----------------------------------------------------------------------------
(* The tables and arguments rules_engine is called with *)

MaxRows == 3

VendorCells == {Null, Some("VendorA"), Some("VendorB")}

\* null, 499.99, 500.00, 5000.00, 5000.50
AmountCells == {Null, Some(49999), Some(50000), Some(500000), Some(500050)}

\* the thresholds <<high_amount_thresh, round_threshold>>: the defaults, and
\* those of test_rules_engine (1000, 100)
Thresholds == {<<DefaultHighAmountThresh, DefaultRoundThreshold>>, <<100000, 10000>>}

\* a table with the given columns; tx_id is the row's position, as
\* prepare_features assigns it
MkTable(cols, vendors, amounts) ==
    [columns |-> cols,
     rows    |-> [i \in 1..Len(amounts) |->
                    [c \in cols |-> CASE c = "tx_id"  -> Some(i - 1)
                                      [] c = "Vendor" -> vendors[i]
                                      [] c = "Amount" -> amounts[i]
                                      [] OTHER        -> Null]]]

ColumnSets == {{"tx_id"} \cup c : c \in SUBSET {"Vendor", "Amount"}}

\* df is a table of at most MaxRows rows over the given cells
IsBoundedTable(table) ==
    \E n \in 0..MaxRows, cols \in ColumnSets :
        \E vs \in [1..n -> IF "Vendor" \in cols THEN VendorCells ELSE {Null}],
           as \in [1..n -> IF "Amount" \in cols THEN AmountCells ELSE {Null}] :
            table = MkTable(cols, vs, as)

\* the table of TestFraudForensics.setUp, after amount cleaning
TestTable ==
    MkTable({"tx_id", "Vendor", "Amount", "Date"},
            <<Some("VendorA"), Some("VendorB"), Some("VendorA"), Some("VendorC"),
              Some("VendorB"), Some("VendorA"), Some("VendorD"), Some("VendorE"),
              Some("VendorA"), Some("VendorF")>>,
            <<Some(10000), Some(20000), Some(10000), Some(5000), Some(20000),
              Some(500000), Some(12345), Some(1000), Some(10000), Some(999900)>>)

MaxTravelRows == 2

\* latitudes in whole degrees (longitude is 0 on every row), hours since the
\* first timestamp
LatCells == {Null, Some(0), Some(40)}

DateCells == {Some(0), Some(1), Some(50)}

\* a table that also carries the columns of a travel check: one card, one
\* vendor, the amount 500.00 on every row
IsTravelTable(table) ==
    \E n \in 1..MaxTravelRows :
        \E lats \in [1..n -> LatCells], dates \in [1..n -> DateCells] :
            table = [columns |-> {"tx_id", "Vendor", "Amount", "Card", "Lat", "Lon", "Date"},
                     rows    |-> [i \in 1..n |->
                                    [c \in {"tx_id", "Vendor", "Amount", "Card", "Lat", "Lon", "Date"} |->
                                        CASE c = "tx_id"  -> Some(i - 1)
                                          [] c = "Vendor" -> Some("VendorA")
                                          [] c = "Amount" -> Some(50000)
                                          [] c = "Card"   -> Some("Card1")
                                          [] c = "Lat"    -> lats[i]
                                          [] c = "Lon"    -> IF lats[i] = Null THEN Null ELSE Some(0)
                                          [] c = "Date"   -> dates[i]]]]

RuleArgs ==
    {[amount_col |-> "Amount", vendor_col |-> v,
      high_amount_thresh |-> t[1], round_threshold |-> t[2]] :
        v \in {None, Some("Vendor")}, t \in Thresholds}

Init ==
    /\ IsBoundedTable(df) \/ IsTravelTable(df) \/ df = TestTable
    /\ args \in RuleArgs
    /\ ret = <<>>
    /\ raised = FALSE
    /\ pc = "call"

\* alerts = rules_engine(df, amount_col, vendor_col, high_amount_thresh, round_threshold)
RulesEngine ==
    /\ pc = "call"
    /\ LET r == rules_engine(df, args.amount_col, args.vendor_col,
                             args.high_amount_thresh, args.round_threshold)
       IN  /\ ret' = r.alerts
           /\ raised' = r.raised
    /\ pc' = "returned"
    /\ UNCHANGED <<df, args>>

Next == RulesEngine

Spec == Init /\ [][Next]_vars

-----------------------------------------------------------------------------
(* ensemble_scores *)

(* Scores are integers (null cells aside); a normalized score, a weight and  *)
(* a risk score are exact fractions [num |-> n, den |-> d] with d > 0, left  *)
(* unreduced.                                                                *)

Frac(n, d) == [num |-> n, den |-> d]

FracAdd(a, b) == Frac(a.num * b.den + b.num * a.den, a.den * b.den)

FracMul(a, b) == Frac(a.num * b.num, a.den * b.den)

FracLess(a, b) == a.num * b.den < b.num * a.den

\* sum(weights)
RECURSIVE SumSeq(_)
SumSeq(w) == IF w = <<>> THEN 0 ELSE w[1] + SumSeq(Tail(w))

\* the array of the n values f[1], ..., f[n], computed once
RECURSIVE Array(_, _)
Array(f, n) == IF n = 0 THEN <<>> ELSE Append(Array(f, n - 1), f[n])

\* valid_cols = [c for c in score_cols if c in df.columns]
ValidCols(table, score_cols) == SelectSeq(score_cols, LAMBDA c : c \in table.columns)

\* S = df[valid_cols].fillna(0).values
ScoreMatrix(table, cols) ==
    Array([j \in RowIdx(table) |->
              Array([i \in 1..Len(cols) |->
                        IF table.rows[j][cols[i]] = Null THEN 0
                        ELSE Val(table.rows[j][cols[i]])],
                    Len(cols))],
          Len(table.rows))

DataMin(S, i) == CHOOSE m \in {S[j][i] : j \in DOMAIN S} : \A j \in DOMAIN S : m <= S[j][i]

DataMax(S, i) == CHOOSE m \in {S[j][i] : j \in DOMAIN S} : \A j \in DOMAIN S : m >= S[j][i]

\* MinMaxScaler().fit_transform(S): (x - min) / (max - min) per column; a
\* column of range 0 is scaled by 1
FitTransform(S, k) ==
    LET data_min == Array([i \in 1..k |-> DataMin(S, i)], k)
        data_max == Array([i \in 1..k |-> DataMax(S, i)], k)
        scale    == Array([i \in 1..k |->
                              IF data_max[i] - data_min[i] = 0 THEN 1
                              ELSE data_max[i] - data_min[i]], k)
    IN  Array([j \in DOMAIN S |->
                  Array([i \in 1..k |-> Frac(S[j][i] - data_min[i], scale[i])], k)],
              Len(S))

\* weights = [1.0] * k if weights is None; weights = weights[:len(valid_cols)]
TruncatedWeights(weights, k) ==
    LET w == IF weights = None THEN [i \in 1..k |-> 1] ELSE Val(weights)
    IN  SubSeq(w, 1, IF Len(w) < k THEN Len(w) ELSE k)

\* mutant of NormalizedWeights: the weights are not divided by their sum
NormalizedWeights_NotRenormalized(w) ==
    Array([i \in 1..Len(w) |-> Frac(w[i], 1)], Len(w))

\* np.array(weights) / max(1e-9, sum(weights)), for weights counted in whole
\* units: a sum below one unit is the floor 1e-9
NormalizedWeights(w) ==
    LET total == SumSeq(w)
    IN  Array([i \in 1..Len(w) |->
                  IF total >= 1 THEN Frac(w[i], total)
                  ELSE Frac(w[i] * 1000000000, 1)],
              Len(w))

\* S_norm.dot(weights), one row
RECURSIVE Dot(_, _, _)
Dot(row, w, k) ==
    IF k = 0 THEN Frac(0, 1)
    ELSE FracAdd(Dot(row, w, k - 1), FracMul(row[k], w[k]))

\* np.argmax(S_norm * weights, axis=1), one row: the first column holding the
\* largest product
ArgMax(row, w, k) ==
    LET prod == Array([i \in 1..k |-> FracMul(row[i], w[i])], k)
    IN  CHOOSE i \in 1..k :
            /\ \A m \in 1..k : ~FracLess(prod[i], prod[m])
            /\ \A m \in 1..(i - 1) : FracLess(prod[m], prod[i])

MethodLabel(method) ==
    CASE method = "iforest_score" -> "Statistical Outlier (Isolation Forest)"
      [] method = "lof_score"     -> "Local Density Anomaly (LOF)"
      [] method = "ae_score"      -> "Pattern Mismatch (Autoencoder)"
      [] OTHER                    -> "Anomaly (" \o method \o ")"

\* mutant of Explanation: the threshold is applied to the weighted value
Explanation_WeightedThreshold(row, w, cols) ==
    LET i == ArgMax(row, w, Len(cols))
        score_val == FracMul(row[i], w[i])
    IN  IF FracLess(score_val, Frac(3, 10)) THEN "Low Risk" ELSE MethodLabel(cols[i])

\* the explanation of one row: score_val = S_norm[j, i] of the best column i
Explanation(row, w, cols) ==
    LET i == ArgMax(row, w, Len(cols))
        score_val == row[i]
    IN  IF FracLess(score_val, Frac(3, 10)) THEN "Low Risk" ELSE MethodLabel(cols[i])

\* df[out_col] = scores; df['risk_explainer'] = explainers
WithColumns(table, out_col, scores, explainers) ==
    [columns |-> table.columns \cup {out_col, "risk_explainer"},
     rows    |-> [j \in RowIdx(table) |->
                    [c \in table.columns \cup {out_col, "risk_explainer"} |->
                        IF c = "risk_explainer" THEN Some(explainers[j])
                        ELSE IF c = out_col THEN Some(scores[j])
                        ELSE table.rows[j][c]]]]

\* mutant of ensemble_scores: the test for no valid column is left out, and
\* the scaler rejects a matrix of no columns
ensemble_scores_NoColumnCheck(table, score_cols, weights, out_col) ==
    LET valid_cols == ValidCols(table, score_cols)
        k          == Len(valid_cols)
        S_norm     == FitTransform(ScoreMatrix(table, valid_cols), k)
        w          == NormalizedWeights(TruncatedWeights(weights, k))
    IN  IF Len(table.rows) = 0
        THEN [raised |-> FALSE, table |-> WithColumns(table, out_col, <<>>, <<>>)]
        ELSE IF k = 0 \/ Len(w) # k
        THEN [raised |-> TRUE, table |-> <<>>]
        ELSE [raised |-> FALSE,
              table  |-> WithColumns(table, out_col,
                                     [j \in RowIdx(table) |-> Dot(S_norm[j], w, k)],
                                     [j \in RowIdx(table) |->
                                         Explanation(S_norm[j], w, valid_cols)])]

\* ensemble_scores(df, score_cols, weights, out_col): the new table, or an
\* exception (np.dot on a weight vector shorter than the columns)
ensemble_scores(table, score_cols, weights, out_col) ==
    LET valid_cols == ValidCols(table, score_cols)
        k          == Len(valid_cols)
        S          == ScoreMatrix(table, valid_cols)
        S_norm     == FitTransform(S, k)
        w          == NormalizedWeights(TruncatedWeights(weights, k))
    IN  IF valid_cols = <<>>
        THEN [raised |-> FALSE,
              table  |-> WithColumns(table, out_col,
                                     [j \in RowIdx(table) |-> Frac(0, 1)],
                                     [j \in RowIdx(table) |-> "No scores"])]
        ELSE IF Len(table.rows) = 0
        THEN [raised |-> FALSE, table |-> WithColumns(table, out_col, <<>>, <<>>)]
        ELSE IF Len(w) # k
        THEN [raised |-> TRUE, table |-> <<>>]
        ELSE [raised |-> FALSE,
              table  |-> WithColumns(table, out_col,
                                     [j \in RowIdx(table) |-> Dot(S_norm[j], w, k)],
                                     [j \in RowIdx(table) |->
                                         Explanation(S_norm[j], w, valid_cols)])]

-----------------------------------------------------------------------------
(* The tables and arguments ensemble_scores is called with *)

MaxScoreRows == 2

\* a null score, and the raw scores 1 and 2
ScoreCells == {Null, Some(1), Some(2)}

\* the score_cols lists: that of the pipeline, and one naming the optional
\* autoencoder score and a caller's own score
ScoreColLists == {<<"iforest_score", "lof_score">>, <<"ae_score", "lof_score", "my_score">>}

\* None, or a list of weights in whole units
WeightLists ==
    {None, Some(<<>>), Some(<<1>>), Some(<<1, 1>>), Some(<<1, 3>>), Some(<<3, 1>>),
     Some(<<0, 0>>), Some(<<0, 2>>), Some(<<1, 1, 2>>), Some(<<2, 1, 1>>)}

\* the score columns a table carries: at most two of those listed
ScoreColumnSets(score_cols) ==
    {c \in SUBSET {score_cols[i] : i \in DOMAIN score_cols} : Cardinality(c) <= 2}

IsScoredTable(table, score_cols) ==
    \E n \in 0..MaxScoreRows, cols \in ScoreColumnSets(score_cols) :
        \E cells \in [1..n -> [cols -> ScoreCells]] :
            table = [columns |-> {"tx_id"} \cup cols,
                     rows    |-> [j \in 1..n |->
                                    [c \in {"tx_id"} \cup cols |->
                                        IF c = "tx_id" THEN Some(j - 1) ELSE cells[j][c]]]]

\* a longer table of both detector scores, with scores spread unevenly
SampleScores ==
    [columns |-> {"tx_id", "iforest_score", "lof_score"},
     rows    |-> [j \in 1..4 |->
                    [tx_id         |-> Some(j - 1),
                     iforest_score |-> <<Some(0), Some(1), Some(2), Some(4)>>[j],
                     lof_score     |-> <<Some(3), Null, Some(3), Some(4)>>[j]]]]

InitEnsemble ==
    /\ args \in {[score_cols |-> sc, weights |-> w, out_col |-> "risk_score"] :
                    sc \in ScoreColLists, w \in WeightLists}
    /\ IsScoredTable(df, args.score_cols) \/ df = SampleScores
    /\ ret = <<>>
    /\ raised = FALSE
    /\ pc = "call"

\* df = ensemble_scores(df, score_cols, weights)
EnsembleScores ==
    /\ pc = "call"
    /\ LET r == ensemble_scores(df, args.score_cols, args.weights, args.out_col)
       IN  /\ ret' = r.table
           /\ raised' = r.raised
    /\ pc' = "returned"
    /\ UNCHANGED <<df, args>>

NextEnsemble == EnsembleScores

SpecEnsemble == InitEnsemble /\ [][NextEnsemble]_vars

-----------------------------------------------------------------------------
(* Properties of rules_engine *)

Returned == pc = "returned"

\* the alerts of one type that reference one transaction
AlertsOn(type, tx_id) == {k \in DOMAIN ret : ret[k].type = type /\ ret[k].tx_id = tx_id}

\* exact equality of two amounts: a null amount (NaN) is equal to no amount,
\* itself included
ExactEq(c1, c2) == notna(c1) /\ notna(c2) /\ c1 = c2

\* row i shares its (entity, amount) pair with another row: the same entity
\* cell and exactly equal amounts
HasTwin(i) ==
    \E j \in RowIdx(df) :
        /\ j # i
        /\ df.rows[j]["Vendor"] = df.rows[i]["Vendor"]
        /\ ExactEq(df.rows[j]["Amount"], df.rows[i]["Amount"])

DuplicateRuleRuns ==
    /\ args.vendor_col = Some("Vendor")
    /\ "Vendor" \in df.columns
    /\ "Amount" \in df.columns

\* C1: with the entity and the amount column present, a row gets a duplicate
\* alert of high severity if and only if its (entity, amount) pair is exactly
\* equal to that of at least one other row.
C1_DuplicateExactPairs ==
    (Returned /\ DuplicateRuleRuns) =>
        \A i \in RowIdx(df) :
            /\ HasTwin(i) <=> AlertsOn(TypeDuplicate, df.rows[i]["tx_id"]) # {}
            /\ \A k \in AlertsOn(TypeDuplicate, df.rows[i]["tx_id"]) :
                   ret[k].severity = SeverityHigh

C4_AlertVocabulary ==
    Returned =>
        \A k \in DOMAIN ret :
            /\ ret[k].type \in {"duplicate", "round_amount", "high_value", "impossible_travel"}
            /\ ret[k].severity \in {"medium", "high"}

\* the three rules as the specification states them, on row i
FiresDuplicate(i) == DuplicateRuleRuns /\ HasTwin(i)

FiresRound(i) ==
    /\ "Amount" \in df.columns
    /\ notna(df.rows[i]["Amount"])
    /\ Val(df.rows[i]["Amount"]) % 100 = 0
    /\ Val(df.rows[i]["Amount"]) >= args.round_threshold

FiresHigh(i) ==
    /\ "Amount" \in df.columns
    /\ notna(df.rows[i]["Amount"])
    /\ Val(df.rows[i]["Amount"]) >= args.high_amount_thresh

\* C5: the alert list holds exactly one alert per (row, rule) pair that
\* fires, so its length is (rows in duplicate groups) + (rows with a round
\* amount) + (rows with a high value).
C5_OneAlertPerRowAndRule ==
    Returned =>
        /\ \A i \in RowIdx(df) :
               /\ Cardinality(AlertsOn(TypeDuplicate, df.rows[i]["tx_id"]))
                      = IF FiresDuplicate(i) THEN 1 ELSE 0
               /\ Cardinality(AlertsOn(TypeRound, df.rows[i]["tx_id"]))
                      = IF FiresRound(i) THEN 1 ELSE 0
               /\ Cardinality(AlertsOn(TypeHigh, df.rows[i]["tx_id"]))
                      = IF FiresHigh(i) THEN 1 ELSE 0
        /\ Len(ret) = Cardinality({i \in RowIdx(df) : FiresDuplicate(i)})
                      + Cardinality({i \in RowIdx(df) : FiresRound(i)})
                      + Cardinality({i \in RowIdx(df) : FiresHigh(i)})

\* C6: a row whose amount is null never produces an alert of any type, and
\* rules_engine does not raise.
C6_NullAmountNeverAlerts ==
    Returned =>
        /\ ~raised
        /\ \A i \in RowIdx(df) :
               ("Amount" \in df.columns /\ df.rows[i]["Amount"] = Null) =>
                   \A k \in DOMAIN ret : ret[k].tx_id # df.rows[i]["tx_id"]

\* C7: without the entity column (or with vendor_col None) there is no
\* duplicate alert and the round-amount and high-value rules are still
\* evaluated; without the amount column the alert list is empty; there is no
\* exception in either case.
C7_MissingColumnSkipsRule ==
    Returned =>
        /\ ~raised
        /\ (args.vendor_col = None \/ "Vendor" \notin df.columns) =>
               /\ \A k \in DOMAIN ret : ret[k].type # TypeDuplicate
               /\ \A i \in RowIdx(df) :
                      /\ FiresRound(i) <=> AlertsOn(TypeRound, df.rows[i]["tx_id"]) # {}
                      /\ FiresHigh(i) <=> AlertsOn(TypeHigh, df.rows[i]["tx_id"]) # {}
        /\ "Amount" \notin df.columns => ret = <<>>

\* the entity column is absent, two rows hold the same amount, and the amount
\* rules have produced alerts
C7_Witness ==
    /\ Returned
    /\ ~raised
    /\ "Vendor" \notin df.columns
    /\ "Amount" \in df.columns
    /\ args.vendor_col = Some("Vendor")
    /\ \E i, j \in RowIdx(df) : i # j /\ df.rows[i]["Amount"] = df.rows[j]["Amount"]
    /\ \E k \in DOMAIN ret : ret[k].type = TypeRound
    /\ \E k \in DOMAIN ret : ret[k].type = TypeHigh

TravelColumnsPresent == {"Lat", "Lon", "Date", "Card"} \subseteq df.columns

\* row i comes right before row j among the rows of one card sorted by
\* timestamp (a stable sort: equal timestamps keep the row order)
Before(i, j) ==
    \/ Val(df.rows[i]["Date"]) < Val(df.rows[j]["Date"])
    \/ Val(df.rows[i]["Date"]) = Val(df.rows[j]["Date"]) /\ i < j

Consecutive(i, j) ==
    /\ df.rows[i]["Card"] = df.rows[j]["Card"]
    /\ Before(i, j)
    /\ ~ \E k \in RowIdx(df) :
           /\ df.rows[k]["Card"] = df.rows[i]["Card"]
           /\ Before(i, k)
           /\ Before(k, j)

\* both positions are known and time has passed between the two rows
Comparable(i, j) ==
    /\ notna(df.rows[i]["Lat"]) /\ notna(df.rows[i]["Lon"])
    /\ notna(df.rows[j]["Lat"]) /\ notna(df.rows[j]["Lon"])
    /\ Val(df.rows[j]["Date"]) > Val(df.rows[i]["Date"])

Abs(x) == IF x < 0 THEN -x ELSE x

\* distance / elapsed hours > 1000 km/h; on one meridian the great-circle
\* distance is 111 km per degree of latitude
TooFast(i, j) ==
    111 * Abs(Val(df.rows[j]["Lat"]) - Val(df.rows[i]["Lat"]))
        > 1000 * (Val(df.rows[j]["Date"]) - Val(df.rows[i]["Date"]))

TravelAlertOn(i, j) ==
    \E k \in DOMAIN ret :
        /\ ret[k].type = "impossible_travel"
        /\ ret[k].tx_id \in {df.rows[i]["tx_id"], df.rows[j]["tx_id"]}

\* C8: with latitude, longitude, timestamp and card present, every pair of
\* transactions of one card that are consecutive in timestamp order, with both
\* positions known and positive elapsed time, gets an impossible_travel alert
\* exactly when distance / elapsed hours > 1000 km/h.
C8_ImpossibleTravelIff ==
    (Returned /\ TravelColumnsPresent) =>
        \A i, j \in RowIdx(df) :
            (Consecutive(i, j) /\ Comparable(i, j)) =>
                (TooFast(i, j) <=> TravelAlertOn(i, j))

\* C8 as amended: rules_engine has no impossible-travel rule; whatever columns
\* the table carries and whatever speed its rows imply, every alert it
\* returns is one of the duplicate, round-amount and high-value rules.
C8_NoTravelRule ==
    Returned =>
        \A k \in DOMAIN ret :
            ret[k].type \in {"Duplicate Transaction", "Round Dollar Amount",
                             "High Value Transaction"}

\* two consecutive transactions of one card imply more than 1000 km/h, and
\* rules_engine has returned alerts for the table
C8_Witness ==
    /\ Returned
    /\ TravelColumnsPresent
    /\ ret # <<>>
    /\ \E i, j \in RowIdx(df) :
           Consecutive(i, j) /\ Comparable(i, j) /\ TooFast(i, j)

-----------------------------------------------------------------------------
(* Properties of ensemble_scores *)

\* the call's valid columns, normalized scores and effective weights
CallCols == ValidCols(df, args.score_cols)

CallNorm == FitTransform(ScoreMatrix(df, CallCols), Len(CallCols))

CallWeights == NormalizedWeights(TruncatedWeights(args.weights, Len(CallCols)))

\* the default weights, or one non-negative weight per valid column
WeightsMatchColumns ==
    \/ args.weights = None
    \/ /\ Len(Val(args.weights)) = Len(CallCols)
       /\ \A i \in DOMAIN Val(args.weights) : Val(args.weights)[i] >= 0

RiskScore(j) == Val(ret.rows[j]["risk_score"])

RiskExplainer(j) == Val(ret.rows[j]["risk_explainer"])

\* C9: with at least one valid score column and the default weights or one
\* non-negative weight per valid column, ensemble_scores returns and every
\* risk_score it writes lies in [0, 1].
C9_RiskScoreInUnitInterval ==
    (Returned /\ CallCols # <<>> /\ WeightsMatchColumns) =>
        /\ ~raised
        /\ Len(ret.rows) = Len(df.rows)
        /\ \A j \in RowIdx(df) :
               /\ RiskScore(j).den > 0
               /\ 0 <= RiskScore(j).num
               /\ RiskScore(j).num <= RiskScore(j).den

\* two valid columns with unequal weights and a null score: one row scores
\* exactly 1 and another strictly between 0 and 1
C9_Witness ==
    /\ Returned
    /\ ~raised
    /\ Len(CallCols) = 2
    /\ args.weights = Some(<<1, 3>>)
    /\ \E j \in RowIdx(df) : \E i \in DOMAIN CallCols : df.rows[j][CallCols[i]] = Null
    /\ \E j \in RowIdx(df) : RiskScore(j).num = RiskScore(j).den
    /\ \E j \in RowIdx(df) : 0 < RiskScore(j).num /\ RiskScore(j).num < RiskScore(j).den

\* column i is the first column holding the largest normalized_score * weight
\* of a row of normalized scores
IsBestColumn(norm, w, i) ==
    /\ \A m \in DOMAIN norm :
           ~FracLess(FracMul(norm[i], w[i]), FracMul(norm[m], w[m]))
    /\ \A m \in 1..(i - 1) :
           FracLess(FracMul(norm[m], w[m]), FracMul(norm[i], w[i]))

Explained == Returned /\ ~raised /\ CallCols # <<>> /\ df.rows # <<>>

\* C10: with i the column maximizing normalized_score[i] * weight[i],
\* risk_explainer is "Low Risk" if and only if that weighted value is below
\* 0.3, and the label of column i otherwise.
C10_LowRiskByWeightedValue ==
    Explained =>
        LET norm == CallNorm
            w    == CallWeights
            cols == CallCols
        IN  \A j \in RowIdx(df) : \A i \in DOMAIN cols :
                IsBestColumn(norm[j], w, i) =>
                    IF 10 * norm[j][i].num * w[i].num < 3 * norm[j][i].den * w[i].den
                    THEN RiskExplainer(j) = "Low Risk"
                    ELSE RiskExplainer(j) = MethodLabel(cols[i])

\* C10 as amended: with i the first column maximizing normalized_score[i] *
\* weight[i], risk_explainer is "Low Risk" if and only if the normalized score
\* of column i itself, not multiplied by its weight, is below 0.3, and the
\* label of column i otherwise.
C10_LowRiskByNormalizedScore ==
    Explained =>
        LET norm == CallNorm
            w    == CallWeights
            cols == CallCols
        IN  \A j \in RowIdx(df) : \A i \in DOMAIN cols :
                IsBestColumn(norm[j], w, i) =>
                    IF 10 * norm[j][i].num < 3 * norm[j][i].den
                    THEN RiskExplainer(j) = "Low Risk"
                    ELSE RiskExplainer(j) = MethodLabel(cols[i])

\* a row whose best column has a normalized score of at least 0.3 and a
\* weighted value below 0.3 carries that column's label; another row is Low Risk
C10_Witness ==
    /\ Explained
    /\ LET norm == CallNorm
           w    == CallWeights
       IN  \E j \in RowIdx(df) : \E i \in DOMAIN CallCols :
               /\ IsBestColumn(norm[j], w, i)
               /\ 10 * norm[j][i].num >= 3 * norm[j][i].den
               /\ 10 * norm[j][i].num * w[i].num < 3 * norm[j][i].den * w[i].den
               /\ w[i].num > 0
               /\ RiskExplainer(j) = "Local Density Anomaly (LOF)"
    /\ \E j \in RowIdx(df) : RiskExplainer(j) = "Low Risk"


FracEq(a, b) == a.num * b.den = b.num * a.den

\* the caller's weights for k columns as the contract reads them: extra
\* weights dropped, missing weights taken as 1
PaddedWeights(weights, k) ==
    LET w == IF weights = None THEN <<>> ELSE Val(weights)
    IN  Array([i \in 1..k |-> IF i <= Len(w) THEN w[i] ELSE 1], k)

\* C11: for k >= 1 valid columns and a weight list of any length,
\* ensemble_scores does not raise and risk_score is the weighted sum under
\* weights that sum to 1: the caller's weights, the extra ones dropped and the
\* missing ones taken as 1, divided by their sum.
C11_WeightsPaddedAndRenormalized ==
    (Returned /\ CallCols # <<>>) =>
        LET k     == Len(CallCols)
            p     == PaddedWeights(args.weights, k)
            total == SumSeq(p)
            w     == Array([i \in 1..k |-> Frac(p[i], total)], k)
            norm  == CallNorm
        IN  /\ ~raised
            /\ Len(ret.rows) = Len(df.rows)
            /\ total > 0
            /\ \A j \in RowIdx(df) : FracEq(RiskScore(j), Dot(norm[j], w, k))

\* C12: with no valid score column, or with no row, ensemble_scores does not
\* raise and returns the table with the columns risk_score and risk_explainer
\* added, every row holding risk 0 and the explainer "No scores", and every
\* other cell as it was.
C12_NeutralOutput ==
    (Returned /\ (CallCols = <<>> \/ df.rows = <<>>)) =>
        /\ ~raised
        /\ ret.columns = df.columns \cup {"risk_score", "risk_explainer"}
        /\ Len(ret.rows) = Len(df.rows)
        /\ \A j \in RowIdx(df) :
               /\ RiskScore(j).num = 0
               /\ RiskScore(j).den > 0
               /\ RiskExplainer(j) = "No scores"
               /\ \A c \in df.columns : ret.rows[j][c] = df.rows[j][c]

\* two rows and none of the requested score columns: both rows are neutral
C12_Witness ==
    /\ Returned
    /\ ~raised
    /\ CallCols = <<>>
    /\ Len(df.rows) = 2
    /\ \A j \in RowIdx(df) : RiskExplainer(j) = "No scores" /\ RiskScore(j).num = 0

\* C13: with a single valid score column, ensemble_scores returns and
\* risk_score is that column's min-max-normalized value on every row; a column
\* whose minimum is 0 and maximum is 1 is returned unchanged.
C13_SingleColumnNormalized ==
    (Returned /\ Len(CallCols) = 1) =>
        LET norm == CallNorm
            S    == ScoreMatrix(df, CallCols)
        IN  /\ ~raised
            /\ Len(ret.rows) = Len(df.rows)
            /\ \A j \in RowIdx(df) :
                   /\ FracEq(RiskScore(j), norm[j][1])
                   /\ (DataMin(S, 1) = 0 /\ DataMax(S, 1) = 1) =>
                          FracEq(RiskScore(j), Frac(S[j][1], 1))

-----------------------------------------------------------------------------
(* graph_collusion_detector (src/fraud_forensics.py, lines 226-260).  A node
   of the graph is a string; a string is held as the sequence of the parts
   its underscores separate, so "card_C0" is <<"card", "C0">> and
   "card_type_debit" is <<"card", "type", "debit">>.  An entity cell holds its
   string in the same form. *)

\* c.lower(), in parts
LowerParts(c) ==
    CASE c = "Vendor"    -> <<"vendor">>
      [] c = "Card"      -> <<"card">>
      [] c = "Device"    -> <<"device">>
      [] c = "IP"        -> <<"ip">>
      [] c = "Card_Type" -> <<"card", "type">>
      [] c = "Tx_Type"   -> <<"tx", "type">>

\* n.startswith(prefix + '_'), for a prefix without underscore
StartsWith(n, prefix) == Len(n) >= 2 /\ n[1] = prefix

\* tx = f"tx_{row[tx_id_col]}"
TxNode(id) == <<"tx", ToString(id)>>

\* mutant of EntityNode: the node is the value alone, without the column prefix
EntityNode_NoColumnPrefix(c, v) == v

\* node = f"{c.lower()}_{str(row[c])}"
EntityNode(c, v) == LowerParts(c) \o v

\* the entity nodes of one row, in the order of node_cols
RowEntities(table, row, node_cols) ==
    LET cs == SelectSeq(node_cols, LAMBDA c : c \in table.columns /\ notna(row[c]))
    IN  Array([i \in 1..Len(cs) |-> EntityNode(cs[i], Val(row[cs[i]]))], Len(cs))

\* the sequence of the values of a function on 1..n, computed once
Strict(f) == SelectSeq(f, LAMBDA x : TRUE)

\* the nodes a row adds: its transaction node, then its entity nodes
RowNodes(table, row, node_cols, tx_id_col) ==
    <<TxNode(Val(row[tx_id_col]))>> \o RowEntities(table, row, node_cols)

\* the graph after the first j rows: its nodes in the order they were first
\* added (G.add_node keeps a node already there), and its edges
BuildGraph(table, node_cols, tx_id_col, j) ==
    LET width == Len(node_cols) + 1
        added == Strict([r \in 1..j |->
                            RowNodes(table, table.rows[r], node_cols, tx_id_col)])
        flat  == Strict([p \in 1..(j * width) |->
                            LET r == ((p - 1) \div width) + 1
                                k == ((p - 1) % width) + 1
                            IN  IF k <= Len(added[r]) THEN added[r][k] ELSE <<>>])
        first == SelectSeq(Strict([p \in 1..(j * width) |-> p]),
                           LAMBDA p : /\ flat[p] # <<>>
                                      /\ \A q \in 1..(p - 1) : flat[q] # flat[p])
    IN  [nodes |-> Strict([i \in DOMAIN first |-> flat[first[i]]]),
         edges |-> UNION {{{added[r][1], added[r][k]} : k \in 2..Len(added[r])} :
                             r \in 1..j}]

\* the nodes connected to a node of the set reached
RECURSIVE Reach(_, _)
Reach(G, reached) ==
    LET more == {n \in {G.nodes[i] : i \in DOMAIN G.nodes} :
                    n \in reached \/ \E m \in reached : {n, m} \in G.edges}
    IN  IF more = reached THEN reached ELSE Reach(G, more)

\* nx.connected_components(G): the components, in the order of the first node
\* of each
ConnectedComponents(G) ==
    LET comp  == Strict([i \in DOMAIN G.nodes |-> Reach(G, {G.nodes[i]})])
        first == SelectSeq(Strict([i \in DOMAIN G.nodes |-> i]),
                           LAMBDA i : \A q \in 1..(i - 1) : G.nodes[q] \notin comp[i])
    IN  Strict([c \in DOMAIN first |-> comp[first[c]]])

\* s[:n]
Take(s, n) == SubSeq(s, 1, IF Len(s) < n THEN Len(s) ELSE n)

\* the sequences holding every element of a set once
Perms(S) ==
    {o \in [1..Cardinality(S) -> S] : \A a, b \in 1..Cardinality(S) : a # b => o[a] # o[b]}

\* list(G.subgraph(comp).nodes): the view runs over G's nodes in the order
\* they were added, or, for a component of less than half of G's nodes, over
\* the set comp, whose order of iteration is any
SubgraphNodeLists(G, comp) ==
    IF 2 * Cardinality(comp) < Len(G.nodes)
    THEN Perms(comp)
    ELSE {SelectSeq(G.nodes, LAMBDA n : n \in comp)}

TxNodes(nodes) == SelectSeq(nodes, LAMBDA n : StartsWith(n, "tx"))

EntityNodes(nodes) == SelectSeq(nodes, LAMBDA n : ~StartsWith(n, "tx"))

CardNodes(entity_nodes) == SelectSeq(entity_nodes, LAMBDA n : StartsWith(n, "card"))

DeviceNodes(entity_nodes) == SelectSeq(entity_nodes, LAMBDA n : StartsWith(n, "device"))

\* mutant of IsSuspicious: a component of a single device is not reported for
\* that alone
IsSuspicious_NoSingleDevice(tx_count, card_count, device_count, min_component_size) ==
    tx_count >= min_component_size /\ card_count > device_count * 2

\* len(tx_nodes) >= min_component_size and
\* (len(card_nodes) > len(device_nodes) * 2 or len(device_nodes) == 1)
IsSuspicious(tx_count, card_count, device_count, min_component_size) ==
    /\ tx_count >= min_component_size
    /\ card_count > device_count * 2 \/ device_count = 1

\* mutant of Cluster: the counts are taken from the capped lists
Cluster_CappedCounts(nodes) ==
    LET tx_examples == Take(TxNodes(nodes), 5)
        entities    == Take(EntityNodes(nodes), 10)
    IN  [component_size |-> Len(tx_examples),
         tx_examples    |-> tx_examples,
         cards          |-> Len(CardNodes(entities)),
         devices        |-> Len(DeviceNodes(entities)),
         entities       |-> entities]

\* the dict appended for a component whose nodes are listed as given
Cluster(nodes) ==
    LET tx_nodes     == TxNodes(nodes)
        entity_nodes == EntityNodes(nodes)
    IN  [component_size |-> Len(tx_nodes),
         tx_examples    |-> Take(tx_nodes, 5),
         cards          |-> Len(CardNodes(entity_nodes)),
         devices        |-> Len(DeviceNodes(entity_nodes)),
         entities       |-> Take(entity_nodes, 10)]

\* the lists suspicious can end as, for the components given
RECURSIVE Suspicious(_, _, _)
Suspicious(G, comps, min_component_size) ==
    IF comps = <<>> THEN {<<>>}
    ELSE LET rest  == Suspicious(G, Tail(comps), min_component_size)
             lists == SubgraphNodeLists(G, Head(comps))
             any   == Cluster(SelectSeq(G.nodes, LAMBDA n : n \in Head(comps)))
         IN  IF IsSuspicious(any.component_size, any.cards, any.devices,
                             min_component_size)
             THEN {<<Cluster(nodes)>> \o r : nodes \in lists, r \in rest}
             ELSE rest

\* graph_collusion_detector(df, node_cols, tx_id_col, min_component_size): the
\* lists it can return
graph_collusion_detector(table, node_cols, tx_id_col, min_component_size) ==
    LET G == BuildGraph(table, node_cols, tx_id_col, Len(table.rows))
    IN  Suspicious(G, ConnectedComponents(G), min_component_size)

-----------------------------------------------------------------------------
(* The tables and arguments graph_collusion_detector is called with *)

MaxGraphRows == 2

DefaultMinComponentSize == 5

\* the node_cols lists: that of the test, the default, and two naming a
\* further column of the table
NodeColLists ==
    {<<"Card", "Device">>, <<"Vendor", "Card", "Device", "IP">>,
     <<"Card", "Device", "Card_Type">>, <<"Tx_Type", "Card", "Device">>}

MinComponentSizes == {2, DefaultMinComponentSize}

\* a null cell, or one of two values of the column
EntityCells(c) ==
    CASE c = "Vendor"    -> {Null, Some(<<"V1">>), Some(<<"V2">>)}
      [] c = "Card"      -> {Null, Some(<<"C0">>), Some(<<"C1">>)}
      [] c = "Device"    -> {Null, Some(<<"D1">>), Some(<<"D2">>)}
      [] c = "IP"        -> {Null, Some(<<"10.0.0.1">>), Some(<<"10.0.0.2">>)}
      [] c = "Card_Type" -> {Null, Some(<<"credit">>), Some(<<"debit">>)}
      [] c = "Tx_Type"   -> {Null, Some(<<"online">>), Some(<<"pos">>)}

\* the entity columns a table carries: at most two of those listed
EntityColumnSets(node_cols) ==
    {c \in SUBSET {node_cols[i] : i \in DOMAIN node_cols} : Cardinality(c) <= 2}

\* a table of tx_id 0, 1, ... and of entity columns
GraphTable(cols, n, cells) ==
    [columns |-> {"tx_id"} \cup cols,
     rows    |-> [j \in 1..n |->
                    [c \in {"tx_id"} \cup cols |->
                        IF c = "tx_id" THEN Some(j - 1) ELSE cells[j][c]]]]

IsEntityTable(table, node_cols) ==
    \E n \in 0..MaxGraphRows, cols \in EntityColumnSets(node_cols) :
        \E cells \in [1..n -> [cols -> UNION {EntityCells(c) : c \in cols}]] :
            /\ \A j \in 1..n : \A c \in cols : cells[j][c] \in EntityCells(c)
            /\ table = GraphTable(cols, n, cells)

\* the table of test_graph_collusion: ten cards on one device
TestGraphTable ==
    GraphTable({"Vendor", "Card", "Device"}, 10,
               [j \in 1..10 |-> [Vendor |-> Some(<<"V1">>),
                                 Card   |-> Some(<<"C" \o ToString(j - 1)>>),
                                 Device |-> Some(<<"D1">>)]])

\* the first n rows of six transactions that funnel five cards through two
\* devices, card C2 being used on both
FunnelTable(n) ==
    GraphTable({"Card", "Device"}, n,
               [j \in 1..n |->
                   [Card   |-> Some(<<<<"C0">>, <<"C1">>, <<"C2">>, <<"C2">>, <<"C3">>, <<"C4">>>>[j]),
                    Device |-> Some(<<<<"D1">>, <<"D1">>, <<"D1">>, <<"D2">>, <<"D2">>, <<"D2">>>>[j])]])

InitGraph ==
    /\ args \in {[node_cols |-> nc, tx_id_col |-> "tx_id", min_component_size |-> m] :
                    nc \in NodeColLists, m \in MinComponentSizes}
    /\ \/ IsEntityTable(df, args.node_cols)
       \/ df = TestGraphTable
       \/ \E n \in 5..6 : df = FunnelTable(n)
    /\ ret = <<>>
    /\ raised = FALSE
    /\ pc = "call"

\* suspicious = graph_collusion_detector(df, node_cols, min_component_size)
GraphCollusionDetector ==
    /\ pc = "call"
    /\ ret' \in graph_collusion_detector(df, args.node_cols, args.tx_id_col,
                                         args.min_component_size)
    /\ pc' = "returned"
    /\ UNCHANGED <<df, args, raised>>

NextGraph == GraphCollusionDetector

SpecGraph == InitGraph /\ [][NextGraph]_vars

-----------------------------------------------------------------------------
(* Properties of graph_collusion_detector *)

\* the graph of the call and its connected components
CallGraph == BuildGraph(df, args.node_cols, args.tx_id_col, Len(df.rows))

CallComponents == {Reach(CallGraph, {CallGraph.nodes[i]}) : i \in DOMAIN CallGraph.nodes}

IsTxNode(n) == StartsWith(n, "tx")

TxCount(comp) == Cardinality({n \in comp : IsTxNode(n)})

CardCount(comp) == Cardinality({n \in comp : ~IsTxNode(n) /\ StartsWith(n, "card")})

DeviceCount(comp) == Cardinality({n \in comp : ~IsTxNode(n) /\ StartsWith(n, "device")})

\* cluster i of the result reports the component
Reports(i, comp) ==
    /\ ret[i].tx_examples # <<>>
    /\ \A k \in DOMAIN ret[i].tx_examples : ret[i].tx_examples[k] \in comp
    /\ ret[i].component_size = TxCount(comp)
    /\ ret[i].cards = CardCount(comp)
    /\ ret[i].devices = DeviceCount(comp)

\* C14: a connected component is reported exactly once if its transaction
\* nodes number at least min_component_size and its card nodes are more than
\* twice its device nodes or it has exactly one device node, and is not
\* reported otherwise; every cluster returned reports a component.
C14_ReportedIffHeuristic ==
    Returned =>
        LET comps == CallComponents
        IN  /\ \A comp \in comps :
                   Cardinality({i \in DOMAIN ret : Reports(i, comp)}) =
                       IF /\ TxCount(comp) >= args.min_component_size
                          /\ \/ CardCount(comp) > 2 * DeviceCount(comp)
                             \/ DeviceCount(comp) = 1
                       THEN 1 ELSE 0
            /\ \A i \in DOMAIN ret : \E comp \in comps : Reports(i, comp)

\* five cards over two devices in one component of six transactions: reported
\* for the card count alone
C14_Witness ==
    /\ Returned
    /\ df = FunnelTable(6)
    /\ args.min_component_size = 5
    /\ Len(ret) = 1
    /\ ret[1].component_size = 6
    /\ ret[1].cards = 5
    /\ ret[1].devices = 2

\* the batch has a card and a device on every row, all cards distinct and one
\* device for all
DistinctCardsOneDevice ==
    /\ {"Card", "Device"} \subseteq df.columns
    /\ \A j \in RowIdx(df) : notna(df.rows[j]["Card"]) /\ notna(df.rows[j]["Device"])
    /\ \A i, j \in RowIdx(df) :
           /\ i # j => df.rows[i]["Card"] # df.rows[j]["Card"]
           /\ df.rows[i]["Device"] = df.rows[j]["Device"]

\* C15: for n >= min_component_size transactions of n distinct cards on one
\* device, with node columns Card and Device, exactly one cluster is returned,
\* with devices = 1, cards = n and component_size = n.
C15_OneClusterOfDistinctCards ==
    (/\ Returned
     /\ args.node_cols = <<"Card", "Device">>
     /\ DistinctCardsOneDevice
     /\ Len(df.rows) >= args.min_component_size) =>
        /\ Len(ret) = 1
        /\ ret[1].devices = 1
        /\ ret[1].cards = Len(df.rows)
        /\ ret[1].component_size = Len(df.rows)

\* the call of test_graph_collusion: ten cards, one device, minimum 5
C15_Witness ==
    /\ Returned
    /\ df = TestGraphTable
    /\ args.node_cols = <<"Card", "Device">>
    /\ args.min_component_size = 5
    /\ Len(ret) = 1
    /\ ret[1].devices = 1
    /\ ret[1].cards = 10

\* the transactions (rows) of a component
RowsOf(comp) == {j \in RowIdx(df) : TxNode(Val(df.rows[j][args.tx_id_col])) \in comp}

\* the designated columns the table carries
DesignatedCols == {args.node_cols[i] : i \in DOMAIN args.node_cols} \cap df.columns

\* the distinct values a column takes on the transactions of a component
ValuesOf(comp, c) ==
    IF c \in DesignatedCols
    THEN {df.rows[j][c] : j \in {r \in RowsOf(comp) : notna(df.rows[r][c])}}
    ELSE {}

\* the (column, value) pairs of the table over the designated columns
EntityPairs ==
    {<<x[1], Val(df.rows[x[2]][x[1]])>> :
        x \in {y \in DesignatedCols \X RowIdx(df) : notna(df.rows[y[2]][y[1]])}}

\* C16: whatever the designated columns are named, in every component the
\* transaction-node count is the number of its transactions, the card count
\* the number of distinct values of the column Card in it and the device count
\* the number of distinct values of the column Device in it; no entity node is
\* taken for a transaction node, and distinct (column, value) pairs are
\* distinct nodes.
C16_CountsByOriginatingColumn ==
    Returned =>
        /\ \A comp \in CallComponents :
               /\ TxCount(comp) = Cardinality(RowsOf(comp))
               /\ CardCount(comp) = Cardinality(ValuesOf(comp, "Card"))
               /\ DeviceCount(comp) = Cardinality(ValuesOf(comp, "Device"))
        /\ \A c \in DesignatedCols : \A j \in RowIdx(df) :
               notna(df.rows[j][c]) => ~IsTxNode(EntityNode(c, Val(df.rows[j][c])))
        /\ \A p, q \in EntityPairs :
               p # q => EntityNode(p[1], p[2]) # EntityNode(q[1], q[2])

-----------------------------------------------------------------------------
(* benfords_law_analysis (src/fraud_forensics.py, lines 265-299).  A number
   is held by its decimal digits, [neg, int, frac], and the string astype(str)
   makes of it is a sequence of characters: -42.0 is
   [neg |-> TRUE, int |-> <<"4", "2">>, frac |-> <<"0">>] and its string
   <<"-", "4", "2", ".", "0">>. *)

\* str(x) for a cell of a float64 column (digits, point, digits; nan for a
\* null) or of an int64 column (digits alone)
Str(cell, dtype) ==
    IF cell = Null THEN <<"n", "a", "n">>
    ELSE LET v == Val(cell)
         IN  (IF v.neg THEN <<"-">> ELSE <<>>) \o v.int
                 \o (IF dtype = "float64" THEN <<".">> \o v.frac ELSE <<>>)

\* .str.lstrip(chars)
RECURSIVE LStrip(_, _)
LStrip(str, chars) ==
    IF str # <<>> /\ Head(str) \in chars THEN LStrip(Tail(str), chars) ELSE str

\* .str[0]: the first character, NaN for an empty string
FirstChar(str) == IF str = <<>> THEN Null ELSE Some(Head(str))

\* .str.match(r'^[1-9]$') on one character
MatchesDigit(ch) == ch \in {"1", "2", "3", "4", "5", "6", "7", "8", "9"}

\* np.log10(1 + 1/d) for d = 1..9, in ten-thousandths
BenfordExpected == <<3010, 1761, 1249, 969, 792, 669, 580, 512, 458>>

\* return {}
EmptyDict == <<>>

\* the rows of the distribution, for the characters kept
Distribution(kept) ==
    LET total == Len(kept)
    IN  [d \in 1..9 |->
            LET count    == Len(SelectSeq(kept, LAMBDA ch : ch = ToString(d)))
                actual   == IF count = 0 THEN Frac(0, 1) ELSE Frac(count, total)
                expected == Frac(BenfordExpected[d], 10000)
            IN  [digit    |-> d,
                 actual   |-> actual,
                 expected |-> expected,
                 delta    |-> FracAdd(actual, Frac(0 - expected.num, expected.den))]]

\* benfords_law_analysis(df, amount_col): the dict returned, or an exception
\* (the boolean mask of line 277 holds NaN where .str[0] found an empty string)
benfords_law_analysis(table, amount_col) ==
    IF amount_col \notin table.columns
    THEN [raised |-> FALSE, result |-> EmptyDict]
    ELSE LET first == Array([j \in RowIdx(table) |->
                                FirstChar(LStrip(Str(table.rows[j][amount_col], table.dtype),
                                                 {"-", "0"}))],
                            Len(table.rows))
         IN  IF \E j \in DOMAIN first : first[j] = Null
             THEN [raised |-> TRUE, result |-> EmptyDict]
             ELSE LET chars == Array([j \in DOMAIN first |-> Val(first[j])], Len(first))
                      kept  == SelectSeq(chars, MatchesDigit)
                  IN  IF Len(kept) = 0
                      THEN [raised |-> FALSE, result |-> EmptyDict]
                      ELSE [raised |-> FALSE,
                            result |-> [distribution |-> Distribution(kept),
                                        sample_size  |-> Len(kept)]]

-----------------------------------------------------------------------------
(* The tables and arguments benfords_law_analysis is called with *)

MaxBenfordRows == 3

Number(neg, int, frac) == Some([neg |-> neg, int |-> int, frac |-> frac])

\* the cells of a float64 column: null, 0.0, 0.05, 0.9, 9.0, 10.5, -42.0
FloatAmounts ==
    {Null,
     Number(FALSE, <<"0">>, <<"0">>),
     Number(FALSE, <<"0">>, <<"0", "5">>),
     Number(FALSE, <<"0">>, <<"9">>),
     Number(FALSE, <<"9">>, <<"0">>),
     Number(FALSE, <<"1", "0">>, <<"5">>),
     Number(TRUE, <<"4", "2">>, <<"0">>)}

\* the cells of an int64 column: 0, 9, 17, 100, -42
IntAmounts ==
    {Number(FALSE, <<"0">>, <<>>),
     Number(FALSE, <<"9">>, <<>>),
     Number(FALSE, <<"1", "7">>, <<>>),
     Number(FALSE, <<"1", "0", "0">>, <<>>),
     Number(TRUE, <<"4", "2">>, <<>>)}

IsAmountTable(table) ==
    \E n \in 0..MaxBenfordRows, dtype \in {"float64", "int64"} :
        \E cells \in [1..n -> IF dtype = "float64" THEN FloatAmounts ELSE IntAmounts] :
            table = [columns |-> {"tx_id", "Amount"},
                     dtype   |-> dtype,
                     rows    |-> [j \in 1..n |-> [tx_id |-> Some(j - 1), Amount |-> cells[j]]]]

InitBenford ==
    /\ args \in {[amount_col |-> c] : c \in {"Amount", "Total"}}
    /\ IsAmountTable(df)
    /\ ret = <<>>
    /\ raised = FALSE
    /\ pc = "call"

\* benford = benfords_law_analysis(df, amount_col)
BenfordsLawAnalysis ==
    /\ pc = "call"
    /\ LET r == benfords_law_analysis(df, args.amount_col)
       IN  /\ ret' = r.result
           /\ raised' = r.raised
    /\ pc' = "returned"
    /\ UNCHANGED <<df, args>>

NextBenford == BenfordsLawAnalysis

SpecBenford == InitBenford /\ [][NextBenford]_vars

-----------------------------------------------------------------------------
(* Properties of benfords_law_analysis *)

RECURSIVE FirstNonZero(_)
FirstNonZero(digits) ==
    IF digits = <<>> THEN Null
    ELSE IF Head(digits) # "0" THEN Some(Head(digits))
    ELSE FirstNonZero(Tail(digits))

\* the leading significant digit of the amount of row j: the first non-zero
\* digit of its decimal value, whatever its sign; Null when it has none
LeadingDigit(j) ==
    LET cell == df.rows[j][args.amount_col]
    IN  IF cell = Null THEN Null ELSE FirstNonZero(Val(cell).int \o Val(cell).frac)

\* the rows whose amount has a digit 1-9
Qualifying == {j \in RowIdx(df) : LeadingDigit(j) # Null}

WithDigit(d) == {j \in Qualifying : Val(LeadingDigit(j)) = ToString(d)}

Analysed == Returned /\ args.amount_col \in df.columns

\* C17: every amount that has a digit 1-9 is counted under its leading
\* significant digit (0.05 under 5, -42 under 4), and only the amounts without
\* such a digit (zero, null) are discarded.
C17_LeadingSignificantDigit ==
    Analysed =>
        /\ ~raised
        /\ IF Qualifying = {} THEN ret = EmptyDict
           ELSE /\ ret # EmptyDict
                /\ ret.sample_size = Cardinality(Qualifying)
                /\ \A d \in 1..9 :
                       ret.distribution[d].actual.num * Cardinality(Qualifying) =
                           Cardinality(WithDigit(d)) * ret.distribution[d].actual.den

RECURSIVE SumActual(_, _)
SumActual(distribution, d) ==
    IF d = 0 THEN Frac(0, 1)
    ELSE FracAdd(SumActual(distribution, d - 1), distribution[d].actual)

\* C18: when at least one amount qualifies the result has one row per digit
\* 1..9, observed(d) is the number of qualifying amounts of leading digit d
\* over sample_size, the number of qualifying amounts; an absent digit has
\* observed 0; the observed frequencies sum to 1; delta is observed minus
\* expected; and if every amount starts with 9, observed(9) = 1 and
\* delta(9) = 1 - expected(9).
C18_ObservedFrequencies ==
    (Analysed /\ Qualifying # {}) =>
        /\ ~raised
        /\ ret # EmptyDict
        /\ ret.sample_size = Cardinality(Qualifying)
        /\ DOMAIN ret.distribution = 1..9
        /\ \A d \in 1..9 :
               LET row == ret.distribution[d]
               IN  /\ row.digit = d
                   /\ FracEq(row.actual, Frac(Cardinality(WithDigit(d)), ret.sample_size))
                   /\ WithDigit(d) = {} => row.actual.num = 0
                   /\ FracEq(FracAdd(row.delta, row.expected), row.actual)
        /\ FracEq(SumActual(ret.distribution, 9), Frac(1, 1))
        /\ Qualifying = RowIdx(df) /\ WithDigit(9) = Qualifying =>
               /\ FracEq(ret.distribution[9].actual, Frac(1, 1))
               /\ FracEq(FracAdd(ret.distribution[9].delta, ret.distribution[9].expected),
                         Frac(1, 1))

-----------------------------------------------------------------------------
(* run_detectors and the detectors (src/fraud_forensics.py, lines 150-221 and
   429-462).  The fits of scikit-learn and Keras are not part of the
   repository: what they do during a call is an input of the model, the record
   library = [keras, fails, raw], with keras whether tensorflow is installed,
   fails the detectors whose fit raises an exception, and raw the raw scores
   the fits return otherwise. *)

SeqMin(s) == CHOOSE m \in {s[j] : j \in DOMAIN s} : \A j \in DOMAIN s : m <= s[j]

SeqMax(s) == CHOOSE m \in {s[j] : j \in DOMAIN s} : \A j \in DOMAIN s : m >= s[j]

\* mutant of normalize_series: the scores are shifted to start at 0 and not
\* divided by their range
normalize_series_NotScaled(s) ==
    IF s = <<>> THEN <<>>
    ELSE Array([j \in DOMAIN s |-> Frac(s[j] - SeqMin(s), 1)], Len(s))

\* _normalize_series(s): 0.0 for a constant series, else (s - min) / (max - min)
normalize_series(s) ==
    IF s = <<>> THEN <<>>
    ELSE IF SeqMax(s) = SeqMin(s) THEN Array([j \in DOMAIN s |-> Frac(0, 1)], Len(s))
    ELSE Array([j \in DOMAIN s |-> Frac(s[j] - SeqMin(s), SeqMax(s) - SeqMin(s))], Len(s))

\* pd.Series(0.0, index=df.index)
Zeros(table) == Array([j \in RowIdx(table) |-> Frac(0, 1)], Len(table.rows))

\* isolation_forest_detector(df, feature_cols): the scores, or the exception
\* of the fit
isolation_forest_detector(table, feature_cols, library) ==
    IF Len(table.rows) = 0 THEN [raised |-> FALSE, scores |-> <<>>]
    ELSE IF "iforest" \in library.fails THEN [raised |-> TRUE, scores |-> <<>>]
    ELSE [raised |-> FALSE, scores |-> normalize_series(library.raw.iforest)]

\* lof_detector(df, feature_cols)
lof_detector(table, feature_cols, library) ==
    IF Len(table.rows) <= 1 THEN [raised |-> FALSE, scores |-> Zeros(table)]
    ELSE IF "lof" \in library.fails THEN [raised |-> TRUE, scores |-> <<>>]
    ELSE [raised |-> FALSE, scores |-> normalize_series(library.raw.lof)]

\* autoencoder_detector(df, feature_cols): None without Keras or without rows
autoencoder_detector(table, feature_cols, library) ==
    IF ~library.keras \/ Len(table.rows) = 0 THEN [raised |-> FALSE, scores |-> None]
    ELSE IF "ae" \in library.fails THEN [raised |-> TRUE, scores |-> None]
    ELSE [raised |-> FALSE, scores |-> Some(normalize_series(library.raw.ae))]

\* possible, line 440
PossibleFeatures ==
    <<"Amount", "amount_log", "vendor_mad_z", "global_mad_z", "vendor_freq",
      "amount_ewma_0.2", "hour_sin", "hour_cos">>

\* df[name] = scores, for each of the names
WithScores(table, names, scores) ==
    [columns |-> table.columns \cup names,
     rows    |-> [j \in RowIdx(table) |->
                    [c \in table.columns \cup names |->
                        IF c \in names THEN Some(scores[c][j]) ELSE table.rows[j][c]]]]

\* run_detectors(df, feature_cols, contamination): the new table, or the
\* exception of a call outside the try block of lines 453-456
run_detectors(table, feature_cols, library) ==
    LET cols    == IF feature_cols = None
                   THEN SelectSeq(PossibleFeatures, LAMBDA c : c \in table.columns)
                   ELSE Val(feature_cols)
        iforest == isolation_forest_detector(table, cols, library)
        lof     == lof_detector(table, cols, library)
        ae      == autoencoder_detector(table, cols, library)
        scores  == [iforest_score |-> iforest.scores,
                    lof_score     |-> IF lof.raised THEN Zeros(table) ELSE lof.scores,
                    ae_score      |-> IF ae.scores = None THEN <<>> ELSE Val(ae.scores)]
    IN  IF Len(cols) = 0
        THEN [raised |-> FALSE,
              table  |-> WithScores(table, {"iforest_score", "lof_score"},
                                    [iforest_score |-> Zeros(table),
                                     lof_score     |-> Zeros(table)])]
        ELSE IF iforest.raised \/ ae.raised
        THEN [raised |-> TRUE, table |-> <<>>]
        ELSE [raised |-> FALSE,
              table  |-> WithScores(table,
                                    IF ae.scores = None
                                    THEN {"iforest_score", "lof_score"}
                                    ELSE {"iforest_score", "lof_score", "ae_score"},
                                    scores)]

-----------------------------------------------------------------------------
(* The tables, arguments and library behaviour run_detectors is called with *)

MaxDetectorRows == 2

\* raw scores of a fit
RawScores == {0, 1, 3}

\* a table of n rows with the feature columns given; the first amount is null
DetectorTable(cols, n) ==
    [columns |-> {"tx_id"} \cup cols,
     rows    |-> [j \in 1..n |->
                    [c \in {"tx_id"} \cup cols |->
                        IF c = "tx_id" THEN Some(j - 1)
                        ELSE IF c = "Amount" /\ j = 1 THEN Null
                        ELSE Some(100 * j)]]]

\* the feature columns of the table, and the feature_cols argument
FeatureChoices ==
    {<<{}, None>>, <<{"Amount"}, None>>, <<{"Amount"}, Some(<<"Amount">>)>>,
     <<{"Amount"}, Some(<<>>)>>, <<{"Amount", "hour_sin"}, None>>}

\* what the fits may do on n rows: the scores of a fit that raises are not
\* used and are left at 0; the autoencoder is fitted only with Keras installed
IsLibraryChoice(n, keras, fails, iforest, lof, ae) ==
    /\ "ae" \in fails => keras
    /\ "iforest" \in fails => \A j \in 1..n : iforest[j] = 0
    /\ "lof" \in fails => \A j \in 1..n : lof[j] = 0
    /\ \/ \A j \in 1..n : ae[j] = 0
       \/ keras /\ "ae" \notin fails /\ \A j \in 1..n : ae[j] = iforest[n + 1 - j]

\* four rows whose raw scores are spread unevenly
SampleLibrary ==
    [keras |-> FALSE, fails |-> {},
     raw |-> [iforest |-> <<0, 1, 3, 3>>, lof |-> <<3, 0, 1, 1>>, ae |-> <<0, 0, 0, 0>>]]

InitDetectors ==
    /\ \/ \E n \in 0..MaxDetectorRows, choice \in FeatureChoices,
             keras \in BOOLEAN, fails \in SUBSET {"iforest", "lof", "ae"} :
              \E iforest, lof, ae \in [1..n -> RawScores] :
                  /\ IsLibraryChoice(n, keras, fails, iforest, lof, ae)
                  /\ df = DetectorTable(choice[1], n)
                  /\ args = [feature_cols |-> choice[2],
                              library |-> [keras |-> keras, fails |-> fails,
                                           raw |-> [iforest |-> iforest, lof |-> lof,
                                                    ae |-> ae]]]
       \/ /\ df = DetectorTable({"Amount", "hour_sin"}, 4)
          /\ args = [feature_cols |-> None, library |-> SampleLibrary]
    /\ ret = <<>>
    /\ raised = FALSE
    /\ pc = "call"

\* df = run_detectors(df, feature_cols)
RunDetectors ==
    /\ pc = "call"
    /\ LET r == run_detectors(df, args.feature_cols, args.library)
       IN  /\ ret' = r.table
           /\ raised' = r.raised
    /\ pc' = "returned"
    /\ UNCHANGED <<df, args>>

NextDetectors == RunDetectors

SpecDetectors == InitDetectors /\ [][NextDetectors]_vars

-----------------------------------------------------------------------------
(* Properties of run_detectors *)

\* the feature columns of the call
CallFeatures ==
    IF args.feature_cols = None
    THEN SelectSeq(PossibleFeatures, LAMBDA c : c \in df.columns)
    ELSE Val(args.feature_cols)

\* the fit of the isolation forest is run and raises
IForestRaises ==
    CallFeatures # <<>> /\ Len(df.rows) >= 1 /\ "iforest" \in args.library.fails

\* the fit of the local outlier factor is reached, is run and raises
LofRaises ==
    /\ CallFeatures # <<>>
    /\ Len(df.rows) >= 2
    /\ "lof" \in args.library.fails
    /\ ~IForestRaises

\* the fit of the autoencoder is reached, is run and raises
AeRaises ==
    /\ CallFeatures # <<>>
    /\ Len(df.rows) >= 1
    /\ args.library.keras
    /\ "ae" \in args.library.fails
    /\ ~IForestRaises

Score(j, c) == Val(ret.rows[j][c])

InUnitInterval(x) == x.den > 0 /\ 0 <= x.num /\ x.num <= x.den

C20_DetectorFailureCaught ==
    Returned =>
        /\ IForestRaises =>
               /\ ~raised
               /\ \A j \in RowIdx(df) : Score(j, "iforest_score").num = 0
        /\ (LofRaises /\ ~AeRaises) =>
               /\ ~raised
               /\ \A j \in RowIdx(df) : Score(j, "lof_score").num = 0

-----------------------------------------------------------------------------
(* Further properties of graph_collusion_detector and ensemble_scores *)

\* the elements of a sequence are all different
NoRepeat(seq) == \A a, b \in DOMAIN seq : a # b => seq[a] # seq[b]

\* C28: every cluster returned lists at most 5 transaction nodes and at most
\* 10 entity nodes, all of them nodes of its component, while component_size,
\* cards and devices are the full counts of that component.
C28_ExamplesCappedCountsExact ==
    Returned =>
        \A i \in DOMAIN ret : \E comp \in CallComponents :
            /\ Len(ret[i].tx_examples) <= 5
            /\ Len(ret[i].entities) <= 10
            /\ NoRepeat(ret[i].tx_examples) /\ NoRepeat(ret[i].entities)
            /\ \A k \in DOMAIN ret[i].tx_examples :
                   ret[i].tx_examples[k] \in comp /\ IsTxNode(ret[i].tx_examples[k])
            /\ \A k \in DOMAIN ret[i].entities :
                   ret[i].entities[k] \in comp /\ ~IsTxNode(ret[i].entities[k])
            /\ ret[i].component_size = TxCount(comp)
            /\ ret[i].cards = CardCount(comp)
            /\ ret[i].devices = DeviceCount(comp)

\* the ten-card component of the test: 5 of 10 transactions and 10 of 11
\* entities are listed, and the counts are 10, 10 and 1
C28_Witness ==
    /\ Returned
    /\ df = TestGraphTable
    /\ args.node_cols = <<"Card", "Device">>
    /\ Len(ret) = 1
    /\ Len(ret[1].tx_examples) = 5
    /\ Len(ret[1].entities) = 10
    /\ ret[1].component_size = 10
    /\ ret[1].cards + ret[1].devices = 11

\* the weight the caller supplied at the position of column c in score_cols
AttachedWeight(c) ==
    Val(args.weights)[CHOOSE i \in DOMAIN args.score_cols : args.score_cols[i] = c]

-----------------------------------------------------------------------------
(* prepare_features *)
(*                                                                         *)
(* A table given to prepare_features also carries its index (the list of   *)
(* row labels), the index's name and the dtype of its amount column:       *)
(* "float64" cells hold amounts in hundredths, "object" cells hold texts,  *)
(* each a sequence of characters.  Derived features are exact fractions;   *)
(* amounts, medians and deviations are counted in hundredths.              *)

RECURSIVE GCD(_, _)
GCD(a, b) == IF b = 0 THEN a ELSE GCD(b, a % b)

\* a fraction in lowest terms
Reduced(a) ==
    LET g == GCD(Abs(a.num), a.den)
    IN  Frac(a.num \div g, a.den \div g)

\* sums and products in lowest terms
QAdd(a, b) == Reduced(FracAdd(a, b))

QMul(a, b) == Reduced(FracMul(a, b))

FracSub(a, b) == Reduced(Frac(a.num * b.den - b.num * a.den, a.den * b.den))

\* a / b for b > 0
FracDiv(a, b) == Reduced(Frac(a.num * b.den, a.den * b.num))

FracAbs(a) == Frac(Abs(a.num), a.den)

\* the column of a table as a list of cells
Column(table, col) == Strict([i \in RowIdx(table) |-> table.rows[i][col]])

\* the non-null values of a list of cells
NotNull(cells) == SelectSeq(cells, LAMBDA c : c # Null)

\* the k-th smallest of a list of fractions
Kth(vals, k) ==
    CHOOSE v \in {vals[i] : i \in DOMAIN vals} :
        /\ Cardinality({i \in DOMAIN vals : FracLess(vals[i], v)}) < k
        /\ Cardinality({i \in DOMAIN vals : ~FracLess(v, vals[i])}) >= k

\* Series.median(): the median of the non-null cells, NaN when there is none
median(cells) ==
    LET vals == Strict([i \in DOMAIN NotNull(cells) |-> Val(NotNull(cells)[i])])
        n    == Len(vals)
    IN  IF n = 0 THEN Null
        ELSE IF n % 2 = 1 THEN Some(Kth(vals, (n + 1) \div 2))
        ELSE Some(FracDiv(QAdd(Kth(vals, n \div 2), Kth(vals, (n \div 2) + 1)),
                          Frac(2, 1)))

\* (series - med).abs(): NaN where the cell or the median is NaN
AbsDeviations(cells, med) ==
    Strict([i \in DOMAIN cells |->
               IF cells[i] = Null \/ med = Null THEN Null
               ELSE Some(FracAbs(FracSub(Val(cells[i]), Val(med))))])

\* 1.0, in hundredths
One == Frac(100, 1)

\* robust_median_mad: mad > 0 is False for 0 and for NaN
robust_median_mad(series) ==
    LET med == median(series)
        mad == median(AbsDeviations(series, med))
    IN  [med |-> med,
         mad |-> IF mad # Null /\ FracLess(Frac(0, 1), Val(mad)) THEN mad
                 ELSE Some(One)]

\* 0.6745 * (x - med) / mad on cells; 0.6745 is 1349/2000
ZCell(x, med, mad) ==
    IF x = Null \/ med = Null \/ mad = Null THEN Null
    ELSE Some(QMul(Frac(1349, 2000), FracDiv(FracSub(Val(x), Val(med)), Val(mad))))

robust_zscore(series) ==
    LET mm == robust_median_mad(series)
    IN  Strict([i \in DOMAIN series |-> ZCell(series[i], mm.med, mm.mad)])

\* the value of a digit character
DigitValue(ch) ==
    CHOOSE d \in 0..9 : <<"0", "1", "2", "3", "4", "5", "6", "7", "8", "9">>[d + 1] = ch

IsDigit(ch) == ch \in {"0", "1", "2", "3", "4", "5", "6", "7", "8", "9"}

\* the number written by a list of digits
RECURSIVE DigitsValue(_)
DigitsValue(ds) ==
    IF ds = <<>> THEN 0
    ELSE 10 * DigitsValue(SubSeq(ds, 1, Len(ds) - 1)) + DigitValue(ds[Len(ds)])

\* astype(str) of an object cell: the text itself, "nan" for a null cell
AsStr(cell) == IF cell = Null THEN <<"n", "a", "n">> ELSE Val(cell)

\* mutant of StrReplace: only the currency sign is removed
StrReplace_OnlyDollar(text) == SelectSeq(text, LAMBDA ch : ch # "$")

\* .str.replace(r'[$,]', '', regex=True)
StrReplace(text) == SelectSeq(text, LAMBDA ch : ch \notin {"$", ","})

\* pd.to_numeric(errors='coerce') of one text: digits with at most one
\* decimal point and an optional sign are a number, kept to the hundredth;
\* any other text is NaN
to_numeric(text) ==
    LET neg  == text # <<>> /\ Head(text) = "-"
        body == IF neg THEN Tail(text) ELSE text
        dots == {i \in DOMAIN body : body[i] = "."}
        dot  == IF dots = {} THEN Len(body) + 1 ELSE CHOOSE i \in dots : TRUE
        int  == SubSeq(body, 1, dot - 1)
        frac == SubSeq(body, dot + 1, Len(body))
        two  == Take(frac \o <<"0", "0">>, 2)
    IN  IF /\ Cardinality(dots) <= 1
           /\ \A i \in DOMAIN body : body[i] = "." \/ IsDigit(body[i])
           /\ Len(int) + Len(frac) > 0
        THEN Some((IF neg THEN -1 ELSE 1) * (100 * DigitsValue(int) + DigitsValue(two)))
        ELSE Null

\* lines 68-72: the amount column as numbers; a numeric column is kept
CleanAmount(table, amount_col) ==
    IF table.amount_dtype = "float64" THEN Column(table, amount_col)
    ELSE Strict([i \in RowIdx(table) |->
                    to_numeric(StrReplace(AsStr(table.rows[i][amount_col])))])


\* df[col] = cells: the table with the column col set to the list cells
SetColumn(table, col, cells) ==
    [table EXCEPT
        !.columns = @ \cup {col},
        !.rows = Strict([i \in RowIdx(table) |->
                            [c \in table.columns \cup {col} |->
                                IF c = col THEN cells[i] ELSE table.rows[i][c]]])]

\* the same cell on every row
Constant(table, cell) == Strict([i \in RowIdx(table) |-> cell])

\* parse_datetime: pd.to_datetime(errors='coerce') gives the timestamp a text
\* reads as, NaT for a null cell and for a text that cannot be read
parse_datetime(table, time_col) ==
    IF time_col \in table.columns
    THEN SetColumn(table, time_col,
                   [i \in RowIdx(table) |->
                       LET c == table.rows[i][time_col]
                       IN  IF c # Null /\ Val(c).valid
                           THEN Some([hour |-> Val(c).hour, weekday |-> Val(c).weekday])
                           ELSE Null])
    ELSE table

\* np.sin(2 * np.pi * hour / 24) and np.cos(2 * np.pi * hour / 24), kept as
\* terms of the part of the turn
Sin24(hour) == [sin |-> Frac(hour, 24)]

Cos24(hour) == [cos |-> Frac(hour, 24)]

\* mutant of TimeFeatures: without the column the features are left out
TimeFeatures_NoDefaults(table, time_col) == table

\* lines 75-93: hour, weekday and the cyclic encodings
TimeFeatures(table, time_col) ==
    IF time_col # None /\ Val(time_col) \in table.columns
    THEN LET date    == Column(table, Val(time_col))
             hour    == [i \in RowIdx(table) |->
                            IF date[i] # Null THEN Val(date[i]).hour ELSE 0]
             weekday == [i \in RowIdx(table) |->
                            IF date[i] # Null THEN Val(date[i]).weekday ELSE 0]
             t1 == SetColumn(table, "hour", [i \in RowIdx(table) |-> Some(hour[i])])
             t2 == SetColumn(t1, "weekday", [i \in RowIdx(table) |-> Some(weekday[i])])
             t3 == SetColumn(t2, "hour_sin", [i \in RowIdx(table) |-> Some(Sin24(hour[i]))])
         IN  SetColumn(t3, "hour_cos", [i \in RowIdx(table) |-> Some(Cos24(hour[i]))])
    ELSE LET t1 == SetColumn(table, "hour", Constant(table, Some(12)))
             t2 == SetColumn(t1, "weekday", Constant(table, Some(0)))
             t3 == SetColumn(t2, "hour_sin", Constant(table, Some(Frac(0, 1))))
         IN  SetColumn(t3, "hour_cos", Constant(table, Some(Frac(0, 1))))

\* amounts in hundredths as fractions
AsFracs(cells) ==
    Strict([i \in DOMAIN cells |->
               IF cells[i] = Null THEN Null ELSE Some(Frac(Val(cells[i]), 1))])

\* Series.fillna(v)
fillna(cells, v) ==
    Strict([i \in DOMAIN cells |-> IF cells[i] = Null THEN Some(v) ELSE cells[i]])

\* np.log1p(x.fillna(0).clip(lower=0)): the logarithm is kept as a term of
\* its argument
AmountLog(amount) ==
    LET filled == fillna(amount, Frac(0, 1))
    IN  Strict([i \in DOMAIN filled |->
                   IF filled[i] = Null THEN Null
                   ELSE Some([log1p |-> IF Val(filled[i]).num < 0 THEN Frac(0, 1)
                                        ELSE Val(filled[i])])])

\* the cells of the rows in the group of row i; groupby leaves out the rows
\* with a null key
GroupCells(vendor, cells, i) ==
    LET members == SelectSeq(Strict([j \in DOMAIN vendor |-> j]),
                             LAMBDA j : vendor[j] = vendor[i])
    IN  Strict([k \in DOMAIN members |-> cells[members[k]]])

\* groupby(vendor_col)[amount_col].transform('median')
GroupMedian(vendor, amount) ==
    Strict([i \in DOMAIN vendor |->
               IF vendor[i] = Null THEN Null
               ELSE median(GroupCells(vendor, amount, i))])

\* groupby(vendor_col)[amount_col].transform(lambda x: (x - x.median()).abs().median())
GroupMad(vendor, amount) ==
    Strict([i \in DOMAIN vendor |->
               IF vendor[i] = Null THEN Null
               ELSE LET x == GroupCells(vendor, amount, i)
                    IN  median(AbsDeviations(x, median(x)))])

\* vendor_mad.replace(0, 1.0)
ReplaceZero(cells) ==
    Strict([i \in DOMAIN cells |->
               IF cells[i] # Null /\ Val(cells[i]).num = 0 THEN Some(One) ELSE cells[i]])

\* the divisor of the per-vendor z-score of each row
VendorMad(vendor, amount) == ReplaceZero(GroupMad(vendor, amount))

\* df[vendor_col].map(df[vendor_col].value_counts(normalize=True)).fillna(0):
\* value_counts leaves the null cells out of the counts and of the total
VendorFreq(vendor) ==
    Strict([i \in DOMAIN vendor |->
               IF vendor[i] = Null THEN Some(Frac(0, 1))
               ELSE Some(Frac(Cardinality({j \in DOMAIN vendor : vendor[j] = vendor[i]}),
                              Cardinality({j \in DOMAIN vendor : vendor[j] # Null})))])

\* Series.ewm(alpha=0.2, adjust=False).mean() up to row i: NaN before the
\* first value; a null cell keeps the average and ages its weight
RECURSIVE Ewm(_, _)
Ewm(cells, i) ==
    IF i = 0 THEN [weighted |-> Null, old_wt |-> Frac(1, 1), out |-> <<>>]
    ELSE LET p   == Ewm(cells, i - 1)
             cur == cells[i]
             old == QMul(p.old_wt, Frac(4, 5))
             w   == IF p.weighted = Null THEN cur
                    ELSE IF cur = Null THEN p.weighted
                    ELSE Some(FracDiv(QAdd(QMul(old, Val(p.weighted)),
                                           QMul(Frac(1, 5), Val(cur))),
                                      QAdd(old, Frac(1, 5))))
         IN  [weighted |-> w,
              old_wt   |-> IF p.weighted # Null /\ cur = Null THEN old ELSE Frac(1, 1),
              out      |-> Append(p.out, w)]

\* lines 96-127: the features derived from the amount
AmountFeatures(table, amount_col, id_cols) ==
    IF amount_col \in table.columns
    THEN LET amount     == AsFracs(Column(table, amount_col))
             vendor_col == IF id_cols # None /\ Len(Val(id_cols)) > 0
                           THEN Some(Val(id_cols)[1]) ELSE None
             grouped    == vendor_col # None /\ Val(vendor_col) \in table.columns
             vendor     == IF grouped THEN Column(table, Val(vendor_col)) ELSE <<>>
             amount_med == IF grouped THEN GroupMedian(vendor, amount)
                           ELSE Constant(table, median(amount))
             vendor_mad == VendorMad(vendor, amount)
             mad_z      == IF grouped
                           THEN [i \in RowIdx(table) |->
                                    ZCell(amount[i], amount_med[i], vendor_mad[i])]
                           ELSE robust_zscore(amount)
             freq       == IF grouped THEN VendorFreq(vendor)
                           ELSE Constant(table, Some(Frac(0, 1)))
             t1 == SetColumn(table, "amount_log", AmountLog(amount))
             t2 == SetColumn(t1, "amount_med", amount_med)
             t3 == SetColumn(t2, "vendor_mad_z", mad_z)
             t4 == SetColumn(t3, "vendor_freq", freq)
             t5 == SetColumn(t4, "global_mad_z", robust_zscore(amount))
         IN  SetColumn(t5, "amount_ewma_0.2", Ewm(amount, Len(amount)).out)
    ELSE table

\* the sum of the non-null cells
RECURSIVE SumCells(_)
SumCells(cells) ==
    IF cells = <<>> THEN 0
    ELSE (IF Head(cells) = Null THEN 0 ELSE Val(Head(cells))) + SumCells(Tail(cells))

\* lines 130-139 for one id column: the count and the sum of the amounts of
\* the row's group; a missing amount column is a KeyError the except swallows
RECURSIVE Velocity(_, _, _, _)
Velocity(table, amount_col, ids, k) ==
    IF k = 0 THEN table
    ELSE LET t   == Velocity(table, amount_col, ids, k - 1)
             idc == ids[k]
         IN  IF idc \in t.columns /\ amount_col \in t.columns
             THEN LET key    == Column(t, idc)
                      amount == Column(t, amount_col)
                      t1 == SetColumn(t, idc \o "_count",
                                [i \in RowIdx(t) |->
                                    IF key[i] = Null THEN Null
                                    ELSE Some(Len(NotNull(GroupCells(key, amount, i))))])
                  IN  SetColumn(t1, idc \o "_sum",
                                [i \in RowIdx(t) |->
                                    IF key[i] = Null THEN Null
                                    ELSE Some(SumCells(GroupCells(key, amount, i)))])
             ELSE t

\* the default index of a table: the positions from 0
RangeIndex(table) == Strict([i \in RowIdx(table) |-> i - 1])

\* df.reset_index().rename(columns={'index': 'tx_id'}): the labels of the
\* index become a column, named after the index, 'index' for an index with no
\* name, and only a column named 'index' is renamed
ResetIndex(table) ==
    LET name == IF table.index_name = None THEN "index" ELSE Val(table.index_name)
        col  == IF name = "index" THEN "tx_id" ELSE name
    IN  [SetColumn(table, col, [i \in RowIdx(table) |-> Some(table.index[i])])
            EXCEPT !.index = RangeIndex(table), !.index_name = None]

\* df.copy()
copy(table) == table

\* time_col and id_cols are None or hold a value
prepare_features(table, time_col, amount_col, id_cols) ==
    LET t0 == copy(table)
        t1 == IF time_col # None /\ Val(time_col) \in t0.columns
              THEN parse_datetime(t0, Val(time_col)) ELSE t0
        t2 == IF amount_col \in t1.columns
              THEN [SetColumn(t1, amount_col, CleanAmount(t1, amount_col))
                       EXCEPT !.amount_dtype = "float64"]
              ELSE t1
        t3 == TimeFeatures(t2, time_col)
        t4 == AmountFeatures(t3, amount_col, id_cols)
        t5 == IF /\ id_cols # None /\ Len(Val(id_cols)) > 0
                 /\ time_col # None /\ Val(time_col) \in t4.columns
              THEN Velocity(t4, amount_col, Val(id_cols), Len(Val(id_cols))) ELSE t4
    IN  IF "tx_id" \notin t5.columns THEN ResetIndex(t5) ELSE t5


-----------------------------------------------------------------------------
(* The tables and arguments prepare_features is called with *)

MaxFeatureRows == 2

\* '5,000.00' of test_prepare_features, a text with a currency sign and a
\* text with no number in it
AmountTexts == {<<"5", ",", "0", "0", "0", ".", "0", "0">>, <<"$", "5">>, <<"x">>}

\* amounts of a numeric column, in hundredths
FeatureAmounts == {0, 200}

\* the cells of an amount column of the given dtype
FeatureAmountCells(dtype) ==
    IF dtype = "float64" THEN {Null} \cup {Some(a) : a \in FeatureAmounts}
    ELSE {Some(a) : a \in AmountTexts}

\* date texts: one that cannot be read, and 18:00 on a Wednesday
Unreadable == [valid |-> FALSE, hour |-> 0, weekday |-> 0]

Wednesday18 == [valid |-> TRUE, hour |-> 18, weekday |-> 2]

\* the date columns: every text readable, or all but that of the first row
DateColumns == {"readable", "first unreadable"}

DateCell(dates, i) ==
    IF dates = "first unreadable" /\ i = 1 THEN Some(Unreadable) ELSE Some(Wednesday18)

\* the indexes a table of n rows carries: the default one, the labels left
\* by a filter that kept every other row, and a default one with a name
FeatureIndexes(n) ==
    {[index |-> [i \in 1..n |-> i - 1], index_name |-> None],
     [index |-> [i \in 1..n |-> 2 * i - 1], index_name |-> None],
     [index |-> [i \in 1..n |-> i - 1], index_name |-> Some("batch")]}

\* the table of the given columns; a tx_id column numbers the rows from 7
FeatureTable(cols, dtype, dates, amounts, vendors, ix) ==
    [columns |-> cols,
     rows |-> [i \in DOMAIN amounts |->
                  [c \in cols |->
                      CASE c = "Date"   -> DateCell(dates, i)
                        [] c = "Amount" -> amounts[i]
                        [] c = "Vendor" -> vendors[i]
                        [] c = "tx_id"  -> Some(6 + i)]],
     index |-> ix.index, index_name |-> ix.index_name, amount_dtype |-> dtype]

InitFeatures ==
    /\ \E n \in 0..MaxFeatureRows, cols \in SUBSET {"Date", "Amount", "Vendor", "tx_id"},
             dtype \in {"float64", "object"}, dates \in DateColumns,
             time_col \in {None, Some("Date")},
             id_cols \in {None, Some(<<"Vendor">>)} :
             \E ix \in FeatureIndexes(n), amounts \in [1..n -> FeatureAmountCells(dtype)],
                vendors \in [1..n -> VendorCells] :
                 /\ "Amount" \notin cols =>
                        dtype = "float64" /\ \A i \in 1..n : amounts[i] = Null
                 /\ "Vendor" \notin cols => \A i \in 1..n : vendors[i] = Null
                 /\ "Date" \notin cols => dates = "readable"
                 /\ "tx_id" \in cols => ix.index_name = None /\ ix.index = [i \in 1..n |-> i - 1]
                 /\ df = FeatureTable(cols, dtype, dates, amounts, vendors, ix)
                 /\ args = [time_col |-> time_col, amount_col |-> "Amount",
                            id_cols |-> id_cols]
    /\ ret = <<>>
    /\ raised = FALSE
    /\ pc = "call"

\* df = prepare_features(df, time_col, amount_col, id_cols)
PrepareFeatures ==
    /\ pc = "call"
    /\ ret' = prepare_features(df, args.time_col, args.amount_col, args.id_cols)
    /\ raised' = FALSE
    /\ pc' = "returned"
    /\ UNCHANGED <<df, args>>

NextFeatures == PrepareFeatures

SpecFeatures == InitFeatures /\ [][NextFeatures]_vars


-----------------------------------------------------------------------------
(* Properties of prepare_features *)

\* the call has an amount column to derive features from
HasAmount == "Amount" \in df.columns

\* the column col of the returned table exists and holds no NaN
Finite(col) ==
    /\ col \in ret.columns
    /\ \A i \in RowIdx(ret) : ret.rows[i][col] # Null

\* C21: after prepare_features on a table with an amount column, amount_log,
\* global_mad_z, vendor_mad_z and amount_ewma_0.2 are finite numbers on every
\* row, the rows with a null or unparsable amount included.
C21_AmountFeaturesFinite ==
    (Returned /\ HasAmount) =>
        /\ Finite("amount_log")
        /\ Finite("global_mad_z")
        /\ Finite("vendor_mad_z")
        /\ Finite("amount_ewma_0.2")

\* the text of the amount cell of row i with every '$' and ',' left out
WithoutSigns(i) ==
    SelectSeq(AsStr(df.rows[i]["Amount"]), LAMBDA ch : ch # "$" /\ ch # ",")

FiveThousand == <<"5", ",", "0", "0", "0", ".", "0", "0">>

\* C22: for an amount column of texts, the returned amount column is numeric
\* and each cell is the number its text reads as once every '$' and ',' is
\* removed ('5,000.00' gives 5000.00), or null when that is not a number; the
\* call does not raise.
C22_AmountCleaned ==
    (Returned /\ HasAmount /\ df.amount_dtype = "object") =>
        /\ ~raised
        /\ ret.amount_dtype = "float64"
        /\ \A i \in RowIdx(df) :
              /\ ret.rows[i]["Amount"] = to_numeric(WithoutSigns(i))
              /\ df.rows[i]["Amount"] = Some(FiveThousand) =>
                     ret.rows[i]["Amount"] = Some(500000)
              /\ df.rows[i]["Amount"] = Some(<<"x">>) => ret.rows[i]["Amount"] = Null

\* a call that cleaned '5,000.00' into 5000.00 and a text with no number into
\* a null cell
C22_Witness ==
    /\ Returned /\ HasAmount /\ df.amount_dtype = "object"
    /\ \E i, k \in RowIdx(df) :
          /\ df.rows[i]["Amount"] = Some(FiveThousand)
          /\ ret.rows[i]["Amount"] = Some(500000)
          /\ df.rows[k]["Amount"] = Some(<<"x">>)
          /\ ret.rows[k]["Amount"] = Null

\* the cleaned amounts of the call, and its entity column when it has one
CallAmounts == AsFracs(CleanAmount(df, "Amount"))

IsGrouped == args.id_cols # None /\ Val(args.id_cols)[1] \in df.columns

CallVendors == Column(df, Val(args.id_cols)[1])

IsZero(cell) == cell # Null /\ Val(cell).num = 0

IsPositive(cell) == cell # Null /\ Val(cell).num > 0

\* C24: the divisor of the global z-score is strictly positive and is 1.0
\* when the median absolute deviation of the amounts is 0; with an entity
\* column the same holds of the divisor of every entity group.
C24_DivisorPositive ==
    (Returned /\ HasAmount) =>
        /\ LET mad == median(AbsDeviations(CallAmounts, median(CallAmounts)))
               div == robust_median_mad(CallAmounts).mad
           IN  IsPositive(div) /\ (IsZero(mad) => div = Some(One))
        /\ IsGrouped =>
              \A i \in RowIdx(df) :
                  CallVendors[i] # Null =>
                      /\ IsPositive(VendorMad(CallVendors, CallAmounts)[i])
                      /\ IsZero(GroupMad(CallVendors, CallAmounts)[i]) =>
                             VendorMad(CallVendors, CallAmounts)[i] = Some(One)

\* the part of C24 that holds: the same, for the entity groups that have an
\* amount
DivisorPositiveWithAmount ==
    (Returned /\ HasAmount) =>
        /\ LET mad == median(AbsDeviations(CallAmounts, median(CallAmounts)))
               div == robust_median_mad(CallAmounts).mad
           IN  IsPositive(div) /\ (IsZero(mad) => div = Some(One))
        /\ IsGrouped =>
              \A i \in RowIdx(df) :
                  (/\ CallVendors[i] # Null
                   /\ \E k \in RowIdx(df) : /\ CallVendors[k] = CallVendors[i]
                                            /\ CallAmounts[k] # Null) =>
                      /\ IsPositive(VendorMad(CallVendors, CallAmounts)[i])
                      /\ IsZero(GroupMad(CallVendors, CallAmounts)[i]) =>
                             VendorMad(CallVendors, CallAmounts)[i] = Some(One)

\* C25: with an entity column, vendor_freq of a row is the number of rows with
\* the row's entity value over the number of rows of the table; with no
\* entity column it is 0 on every row.
C25_EntityFrequency ==
    Returned =>
        /\ "vendor_freq" \in ret.columns
        /\ \A i \in RowIdx(df) :
              IF IsGrouped
              THEN CallVendors[i] # Null =>
                       FracEq(Val(ret.rows[i]["vendor_freq"]),
                              Frac(Cardinality({k \in RowIdx(df) :
                                                   CallVendors[k] = CallVendors[i]}),
                                   Len(df.rows)))
              ELSE ret.rows[i]["vendor_freq"] = Some(Frac(0, 1))

\* the part of C25 that holds: with an amount column and no null entity
EntityFrequencyNoNull ==
    (Returned /\ HasAmount
        /\ (IsGrouped => \A i \in RowIdx(df) : CallVendors[i] # Null)) =>
        /\ "vendor_freq" \in ret.columns
        /\ \A i \in RowIdx(df) :
              IF IsGrouped
              THEN FracEq(Val(ret.rows[i]["vendor_freq"]),
                          Frac(Cardinality({k \in RowIdx(df) :
                                               CallVendors[k] = CallVendors[i]}),
                               Len(df.rows)))
              ELSE ret.rows[i]["vendor_freq"] = Some(Frac(0, 1))

\* the call has no timestamp column to read
NoTimeColumn == args.time_col = None \/ Val(args.time_col) \notin df.columns

\* C26: when the timestamp column is absent from the table, or time_col is
\* None, prepare_features does not fail and sets hour = 12, weekday = 0,
\* hour_sin = 0 and hour_cos = 0 on every row.
C26_TimeDefaults ==
    (Returned /\ NoTimeColumn) =>
        /\ ~raised
        /\ {"hour", "weekday", "hour_sin", "hour_cos"} \subseteq ret.columns
        /\ Len(ret.rows) = Len(df.rows)
        /\ \A i \in RowIdx(ret) :
              /\ ret.rows[i]["hour"] = Some(12)
              /\ ret.rows[i]["weekday"] = Some(0)
              /\ ret.rows[i]["hour_sin"] = Some(Frac(0, 1))
              /\ ret.rows[i]["hour_cos"] = Some(Frac(0, 1))

\* a call with time_col = None on a table that has a Date column and rows
C26_Witness ==
    /\ Returned /\ args.time_col = None /\ "Date" \in df.columns
    /\ Len(ret.rows) = MaxFeatureRows
    /\ ret.rows[1]["hour"] = Some(12)

\* C27: a table with no tx_id column gets one that holds each row's position
\* in the input, from 0, whatever index the table carries; an existing tx_id
\* column is left as it is.
C27_TxIdIsPosition ==
    Returned =>
        /\ "tx_id" \in ret.columns
        /\ \A i \in RowIdx(df) :
              ret.rows[i]["tx_id"] = IF "tx_id" \in df.columns THEN df.rows[i]["tx_id"]
                                     ELSE Some(i - 1)

\* the part of C27 that holds: the same, for a table that carries the default
\* index with no name
TxIdIsPositionDefaultIndex ==
    (Returned /\ df.index_name = None /\ df.index = RangeIndex(df)) =>
        /\ "tx_id" \in ret.columns
        /\ \A i \in RowIdx(df) :
              ret.rows[i]["tx_id"] = IF "tx_id" \in df.columns THEN df.rows[i]["tx_id"]
                                     ELSE Some(i - 1)


-----------------------------------------------------------------------------
(* A process that calls one stage several times on the same table *)
(*                                                                         *)
(* df is the table object the caller holds and passes to every call, ret   *)
(* the list of the values the calls returned.  The only state of the       *)
(* process that outlives a call is that of the libraries: the global       *)
(* random generator of Keras, which autoencoder_detector never seeds and   *)
(* every fit advances, and the hash seed of the interpreter, which fixes   *)
(* the iteration order of a set of strings for the life of the process.    *)

Stages ==
    {"prepare_features", "run_detectors", "ensemble_scores", "rules_engine",
     "graph_collusion_detector", "benfords_law_analysis"}

\* mutant of WritesTo: the stages that assign columns work on the object
\* they were given
WritesTo_Argument(stage) ==
    IF stage \in {"prepare_features", "run_detectors", "ensemble_scores"}
    THEN "argument" ELSE "nothing"

\* the object the assignments df[...] = ... of a stage go to: the copy the
\* name df is bound to at lines 61, 368 and 438 before the first assignment;
\* the other stages assign to no table
WritesTo(stage) ==
    IF stage \in {"prepare_features", "run_detectors", "ensemble_scores"}
    THEN "copy" ELSE "nothing"

\* the table object passed to a stage, after the call that returned out
ArgumentAfter(stage, table, out) ==
    IF WritesTo(stage) = "argument" THEN out ELSE table

MaxCalls == 2

\* the raw reconstruction errors of the autoencoder on two rows, for each
\* state of the generator its weights are drawn from
AeRuns == [1..MaxCalls -> [1..2 -> RawScores]]

\* the library of the call made in the given state of the generator
LibraryAt(library, fits) ==
    [keras |-> library.keras, fails |-> {},
     raw |-> [iforest |-> library.iforest, lof |-> library.lof,
              ae |-> library.ae_runs[fits + 1]]]

\* a one-row table of benfords_law_analysis
OneAmountTable(cell) ==
    [columns |-> {"tx_id", "Amount"}, dtype |-> "float64",
     rows |-> <<[tx_id |-> Some(0), Amount |-> cell]>>]

DefaultIndex == [index |-> <<0, 1>>, index_name |-> None]

InitSession ==
    /\ \/ \E amounts \in [1..2 -> FeatureAmountCells("object")] :
              /\ df = FeatureTable({"Date", "Amount", "Vendor"}, "object",
                                   "first unreadable", amounts,
                                   <<Some("VendorA"), Some("VendorA")>>, DefaultIndex)
              /\ args = [stage |-> "prepare_features",
                         call |-> [time_col |-> Some("Date"), amount_col |-> "Amount",
                                   id_cols |-> Some(<<"Vendor">>)]]
       \/ \E keras \in BOOLEAN, ae_runs \in AeRuns :
              /\ ~keras => \A k \in 1..MaxCalls, j \in 1..2 : ae_runs[k][j] = 0
              /\ df = DetectorTable({"Amount", "hour_sin"}, 2)
              /\ args = [stage |-> "run_detectors",
                         call |-> [feature_cols |-> None,
                                   library |-> [keras |-> keras, iforest |-> <<0, 3>>,
                                                lof |-> <<1, 1>>, ae_runs |-> ae_runs]]]
       \/ \E sc \in ScoreColLists, w \in WeightLists :
              /\ df = SampleScores
              /\ args = [stage |-> "ensemble_scores",
                         call |-> [score_cols |-> sc, weights |-> w,
                                   out_col |-> "risk_score"]]
       \/ \E a \in RuleArgs :
              /\ df = TestTable
              /\ args = [stage |-> "rules_engine", call |-> a]
       \/ \E n \in 5..6, m \in MinComponentSizes :
              \E order \in graph_collusion_detector(FunnelTable(n), <<"Card", "Device">>,
                                                    "tx_id", m) :
                  /\ df = FunnelTable(n)
                  /\ args = [stage |-> "graph_collusion_detector",
                             call |-> [node_cols |-> <<"Card", "Device">>,
                                       tx_id_col |-> "tx_id", min_component_size |-> m,
                                       set_order |-> order]]
       \/ \E cell \in FloatAmounts :
              /\ df = OneAmountTable(cell)
              /\ args = [stage |-> "benfords_law_analysis",
                         call |-> [amount_col |-> "Amount"]]
    /\ ret = <<>>
    /\ raised = FALSE
    /\ pc = "call"

\* the call returned out: the caller keeps the value and its table is what
\* the stage left of it
Return(out, failed) ==
    /\ ret' = Append(ret, out)
    /\ raised' = (raised \/ failed)
    /\ df' = ArgumentAfter(args.stage, df, out)
    /\ pc' = IF Len(ret) + 1 = MaxCalls THEN "returned" ELSE "call"
    /\ UNCHANGED args

CallPrepareFeatures ==
    /\ pc = "call" /\ args.stage = "prepare_features"
    /\ Return(prepare_features(df, args.call.time_col, args.call.amount_col,
                               args.call.id_cols), FALSE)

\* every fit of the autoencoder advances the generator: its state is the
\* number of calls made
CallRunDetectors ==
    /\ pc = "call" /\ args.stage = "run_detectors"
    /\ LET r == run_detectors(df, args.call.feature_cols,
                              LibraryAt(args.call.library, Len(ret)))
       IN  Return(r.table, r.raised)

CallEnsembleScores ==
    /\ pc = "call" /\ args.stage = "ensemble_scores"
    /\ LET r == ensemble_scores(df, args.call.score_cols, args.call.weights,
                                args.call.out_col)
       IN  Return(r.table, r.raised)

CallRulesEngine ==
    /\ pc = "call" /\ args.stage = "rules_engine"
    /\ LET r == rules_engine(df, args.call.amount_col, args.call.vendor_col,
                             args.call.high_amount_thresh, args.call.round_threshold)
       IN  Return(r.alerts, r.raised)

\* the order in which the sets of node names are iterated is that of the
\* process
CallGraphCollusionDetector ==
    /\ pc = "call" /\ args.stage = "graph_collusion_detector"
    /\ \E out \in graph_collusion_detector(df, args.call.node_cols, args.call.tx_id_col,
                                           args.call.min_component_size) :
          /\ out = args.call.set_order
          /\ Return(out, FALSE)

CallBenfordsLawAnalysis ==
    /\ pc = "call" /\ args.stage = "benfords_law_analysis"
    /\ LET r == benfords_law_analysis(df, args.call.amount_col)
       IN  Return(r.result, r.raised)

NextSession ==
    \/ CallPrepareFeatures
    \/ CallRunDetectors
    \/ CallEnsembleScores
    \/ CallRulesEngine
    \/ CallGraphCollusionDetector
    \/ CallBenfordsLawAnalysis

SpecSession == InitSession /\ [][NextSession]_vars

-----------------------------------------------------------------------------
(* Properties of the process *)

\* C23: calls of a stage on equal tables and parameters within one process
\* return equal values.
C23_CallsReturnEqualValues ==
    Returned => \A i, k \in DOMAIN ret : ret[i] = ret[k]

\* the part of C23 that holds: every stage but run_detectors with Keras
CallsReturnEqualValuesNoKeras ==
    (Returned /\ ~(args.stage = "run_detectors" /\ args.call.library.keras)) =>
        \A i, k \in DOMAIN ret : ret[i] = ret[k]

=============================================================================
